---------------------------- MODULE Spec2Model ----------------------------
(***************************************************************************)
(* A model of the outreach dashboard's core: the fax-to-email normalizer   *)
(* (data_import.py, database.py), the relationship scoring engine and the  *)
(* overdue-item deriver (utils.py) over the SQLite tables (database.py).   *)
(*                                                                         *)
(* Text is modelled as a sequence of one-character strings, so that        *)
(* stripping, slicing and regular-expression matching are computed as the  *)
(* code computes them.                                                     *)
(***************************************************************************)
EXTENDS Integers, Sequences, FiniteSets, Bags, TLC

VARIABLES
    fax_number,      \* the text handed to the fax-to-email conversion
    domain,          \* the domain argument handed to fax_to_vonage_email
    vonage_email,    \* the conversion's result
    email_valid,     \* validate_vonage_email's result
    fax_pc,          \* "input", then "converted", then "validated"
    now,             \* datetime.now(): [day, tod], tod in half days
    practices,       \* table practices: id -> row
    contact_log,     \* table contact_log: a bag of rows
    lunch_tracking,  \* table lunch_tracking: a bag of rows
    cookie_visits,   \* table cookie_visits: a bag of rows
    thank_you_letters, \* table thank_you_letters: a bag of rows
    reminder_days,   \* config["reminder_days"]["lunch_followup"]
    providers,       \* table providers: a set of rows, each with its id
    huntsville_zips, \* config["huntsville_zips"]
    woodlands_zips,  \* config["woodlands_zips"]
    contact_info,    \* the text handed to parse_phone_number
    phone,           \* parse_phone_number's result
    address,         \* the text handed to categorize_location
    location_category, \* categorize_location's result
    providers_text,  \* the text handed to parse_providers
    provider_names,  \* parse_providers' result
    parse_pc,        \* "idle", "input", then "parsed"
    sheet,           \* the data rows of the "Full List" sheet, row 2 onward
    import_row,      \* import_excel: data rows consumed so far
    current_practice_name, \* import_excel: the local of that name
    stats,           \* import_excel: the stats dict
    import_pc,       \* "idle", "rows", then "done"
    fix_result,      \* what fix_all_vonage_emails returned
    call_attempts,   \* table call_attempts: a bag of rows
    events,          \* table events: a bag of rows
    provider_history, \* table provider_history: a bag of rows
    flyer_campaigns, \* table flyer_campaigns: id -> row
    flyer_recipients, \* table flyer_recipients: a bag of rows
    fax_form,        \* st.session_state of the Send Fax dialog
    config_file,     \* config.json: whether it can be read, and its content
    config           \* what load_config returned

faxVars == <<fax_number, domain, vonage_email, email_valid, fax_pc>>
dbVars == <<now, practices, contact_log, lunch_tracking, cookie_visits,
            thank_you_letters, reminder_days, providers, huntsville_zips,
            woodlands_zips>>
parseVars == <<contact_info, phone, address, location_category,
               providers_text, provider_names, parse_pc>>
importVars == <<sheet, import_row, current_practice_name, stats, import_pc,
                fix_result>>
calendarVars == <<call_attempts, events>>
configVars == <<config_file, config>>
recordVars == <<provider_history, flyer_campaigns, flyer_recipients,
               fax_form, configVars>>
\* what the handlers of the activity tables leave alone
restVars == <<faxVars, parseVars, importVars, calendarVars, recordVars,
              providers,
              huntsville_zips, woodlands_zips>>
vars == <<faxVars, dbVars, parseVars, importVars, calendarVars, recordVars>>

\* Python's min(a, b)
Min(a, b) == [x \in Int, y \in Int |-> IF x <= y THEN x ELSE y][a, b]

(***************************************************************************)
(* Text helpers.                                                           *)
(***************************************************************************)
Digits == {"0", "1", "2", "3", "4", "5", "6", "7", "8", "9"}

IsDigit(ch) == ch \in Digits

Whitespace == {" ", "\n", "\t"}

\* str.strip(): leading and trailing whitespace removed
RECURSIVE LStrip(_)
LStrip(s) == IF s # <<>> /\ Head(s) \in Whitespace THEN LStrip(Tail(s)) ELSE s

RECURSIVE RStrip(_)
RStrip(s) ==
    IF s # <<>> /\ s[Len(s)] \in Whitespace
    THEN RStrip(SubSeq(s, 1, Len(s) - 1))
    ELSE s

Strip(s) == LStrip(RStrip(s))

\* "fax.vonagebusiness.com", the domain the conversion writes
VonageDomain ==
    <<"f", "a", "x", ".", "v", "o", "n", "a", "g", "e", "b", "u", "s", "i",
      "n", "e", "s", "s", ".", "c", "o", "m">>

(***************************************************************************)
(* data_import.py: the fax-to-email conversion.                            *)
(***************************************************************************)
\* a version that keeps the first ten digits of a long number
convert_fax_keep_first(fax) ==
    IF fax = <<>> \/ Strip(fax) = <<>> THEN <<>>
    ELSE LET cleaned == SelectSeq(fax, IsDigit)
         IN  IF Len(cleaned) < 10 THEN <<>>
             ELSE LET ten == SubSeq(cleaned, 1, 10)
                  IN  <<"1", "(">> \o SubSeq(ten, 1, 3) \o <<")">>
                        \o SubSeq(ten, 4, Len(ten)) \o <<"@">> \o VonageDomain

\* a version without the `elif len(cleaned) > 10` truncation
convert_fax_no_truncation(fax) ==
    IF fax = <<>> \/ Strip(fax) = <<>> THEN <<>>
    ELSE LET cleaned == SelectSeq(fax, IsDigit)
         IN  IF Len(cleaned) < 10 THEN <<>>
             ELSE LET ten == IF Len(cleaned) = 11 /\ cleaned[1] = "1"
                             THEN Tail(cleaned)
                             ELSE cleaned
                  IN  <<"1", "(">> \o SubSeq(ten, 1, 3) \o <<")">>
                        \o SubSeq(ten, 4, Len(ten)) \o <<"@">> \o VonageDomain

convert_fax_to_vonage_email(fax) ==
    IF fax = <<>> \/ Strip(fax) = <<>> THEN <<>>
    ELSE LET cleaned == SelectSeq(fax, IsDigit)
         IN  IF Len(cleaned) < 10 THEN <<>>
             ELSE LET ten == IF Len(cleaned) = 11 /\ cleaned[1] = "1"
                             THEN Tail(cleaned)
                             ELSE IF Len(cleaned) > 10
                                  THEN SubSeq(cleaned, Len(cleaned) - 9,
                                              Len(cleaned))
                                  ELSE cleaned
                      area_code == SubSeq(ten, 1, 3)
                      local_number == SubSeq(ten, 4, Len(ten))
                  IN  <<"1", "(">> \o area_code \o <<")">> \o local_number
                        \o <<"@">> \o VonageDomain

\* the wrapper the add and edit forms call; its domain argument is not used
fax_to_vonage_email(fax, dom) == convert_fax_to_vonage_email(fax)

(***************************************************************************)
(* database.py: validate_vonage_email.  The pattern is                     *)
(*   ^1(?:\(\d{3}\)\d{7}|\d{10})@fax\.vonagebusiness\.com$                 *)
(* and `$` also matches before one trailing newline.                       *)
(***************************************************************************)
AllDigits(s) == \A i \in 1..Len(s) : IsDigit(s[i])

MatchesVonagePattern(e) ==
    LET tail == <<"@">> \o VonageDomain
        parens == /\ Len(e) = 13 + Len(tail)
                  /\ e[1] = "1" /\ e[2] = "("
                  /\ AllDigits(SubSeq(e, 3, 5))
                  /\ e[6] = ")"
                  /\ AllDigits(SubSeq(e, 7, 13))
                  /\ SubSeq(e, 14, Len(e)) = tail
        plain ==  /\ Len(e) = 11 + Len(tail)
                  /\ e[1] = "1"
                  /\ AllDigits(SubSeq(e, 2, 11))
                  /\ SubSeq(e, 12, Len(e)) = tail
    IN  parens \/ plain

validate_vonage_email(email) ==
    IF email = <<>> THEN FALSE
    ELSE \/ MatchesVonagePattern(email)
         \/ /\ email[Len(email)] = "\n"
            /\ MatchesVonagePattern(SubSeq(email, 1, Len(email) - 1))

(***************************************************************************)
(* Stored dates.  A DATETIME column holds text; the model keeps the day    *)
(* it names (day 0 is today, earlier days are negative), the time of day   *)
(* in half days, and the shape of the text:                                *)
(*   "date"            YYYY-MM-DD            date.isoformat()              *)
(*   "datetime_space"  YYYY-MM-DD HH:MM:SS   CURRENT_TIMESTAMP             *)
(*   "datetime_T"      YYYY-MM-DDTHH:MM:SS   datetime.isoformat()          *)
(*   "none"            NULL or ""                                          *)
(***************************************************************************)
NoDate == [fmt |-> "none", day |-> 0, tod |-> 0]

DateText(day) == [fmt |-> "date", day |-> day, tod |-> 0]

DateTimeT(day, tod) == [fmt |-> "datetime_T", day |-> day, tod |-> tod]

DateTimeSpace(day, tod) == [fmt |-> "datetime_space", day |-> day, tod |-> tod]

\* Python's None, and an integer result
None == [none |-> TRUE, days |-> 0]

Some(n) == [none |-> FALSE, days |-> n]

\* utils.py days_since: strptime accepts %Y-%m-%d and %Y-%m-%d %H:%M:%S (the
\* two other formats, %m/%d/%Y and %m-%d-%Y, match none of the stored
\* shapes); timedelta.days is the floor of the difference in days
days_since(date_str) ==
    IF date_str.fmt = "none" THEN None
    ELSE IF date_str.fmt \in {"date", "datetime_space"}
         THEN Some(((now.day - date_str.day) * 2 + (now.tod - date_str.tod))
                     \div 2)
         ELSE None

\* SQLite's ordering of the stored text: NULL first, then by characters
FmtRank(f) ==
    CASE f = "none" -> 0
      [] f = "date" -> 1
      [] f = "datetime_space" -> 2
      [] f = "datetime_T" -> 3

DateBefore(a, b) ==
    IF a.fmt = "none" \/ b.fmt = "none"
    THEN a.fmt = "none" /\ b.fmt # "none"
    ELSE \/ a.day < b.day
         \/ a.day = b.day /\ FmtRank(a.fmt) < FmtRank(b.fmt)
         \/ a.day = b.day /\ a.fmt = b.fmt /\ a.tod < b.tod

\* the rows of a bag as a set of [row, n], one element per stored copy
Rows(table) ==
    UNION {{[row |-> r, n |-> i] : i \in 1..CopiesIn(r, table)} :
             r \in BagToSet(table)}

\* ORDER BY <date column> DESC over a set of [row, n, date]
OrderByDateDesc(rows) ==
    LET sorted[S \in SUBSET rows] ==
            IF S = {} THEN <<>>
            ELSE LET first == CHOOSE x \in S :
                                  \A y \in S : ~DateBefore(x.date, y.date)
                 IN  <<first.row>> \o sorted[S \ {first}]
    IN  sorted[rows]

Limit(seq, n) == SubSeq(seq, 1, Min(Len(seq), n))

(***************************************************************************)
(* database.py: the queries and writes the two engines use.                *)
(***************************************************************************)
PracticeNames == <<"ABC Clinic", "ABC Clinic (Branch)">>

NameRank(name) == CHOOSE i \in 1..Len(PracticeNames) : PracticeNames[i] = name

\* SELECT * FROM practices [WHERE status=?] ORDER BY name, as ids
OrderByName(ids) ==
    LET sorted[S \in SUBSET ids] ==
            IF S = {} THEN <<>>
            ELSE LET first == CHOOSE p \in S : \A q \in S :
                         \/ NameRank(practices[p].name)
                              < NameRank(practices[q].name)
                         \/ /\ practices[p].name = practices[q].name
                            /\ p <= q
                 IN  <<first>> \o sorted[S \ {first}]
    IN  sorted[ids]

get_all_practices(status_filter) ==
    OrderByName({p \in DOMAIN practices :
                   status_filter = "" \/ practices[p].status = status_filter})

get_contact_log(practice_id, limit) ==
    Limit(OrderByDateDesc(
              {[row |-> x.row, n |-> x.n, date |-> x.row.contact_date] :
                 x \in {y \in Rows(contact_log) :
                          /\ y.row.practice_id = practice_id
                          /\ y.row.practice_id \in DOMAIN practices}}),
          limit)

get_lunches(practice_id, status_filter) ==
    OrderByDateDesc(
        {[row |-> x.row, n |-> x.n, date |-> x.row.scheduled_date] :
           x \in {y \in Rows(lunch_tracking) :
                    /\ y.row.practice_id = practice_id
                    /\ y.row.practice_id \in DOMAIN practices
                    /\ status_filter = "" \/ y.row.status = status_filter}})

get_cookie_visits(practice_id) ==
    OrderByDateDesc(
        {[row |-> x.row, n |-> x.n, date |-> x.row.visit_date] :
           x \in {y \in Rows(cookie_visits) :
                    /\ y.row.practice_id = practice_id
                    /\ y.row.practice_id \in DOMAIN practices}})

get_thank_yous(practice_id, status_filter) ==
    OrderByDateDesc(
        {[row |-> x.row, n |-> x.n, date |-> x.row.created_at] :
           x \in {y \in Rows(thank_you_letters) :
                    /\ y.row.practice_id = practice_id
                    /\ y.row.practice_id \in DOMAIN practices
                    /\ status_filter = "" \/ y.row.status = status_filter}})

add_contact_log(data) ==
    /\ contact_log' = contact_log (+) SetToBag({data})
    /\ UNCHANGED <<now, practices, lunch_tracking, cookie_visits,
                   thank_you_letters, reminder_days>>
    /\ UNCHANGED restVars

add_lunch(data) ==
    /\ lunch_tracking' = lunch_tracking (+) SetToBag({data})
    /\ UNCHANGED <<now, practices, contact_log, cookie_visits,
                   thank_you_letters, reminder_days>>
    /\ UNCHANGED restVars

\* UPDATE lunch_tracking SET status=? WHERE id=?, on the row `lunch`
update_lunch(lunch, status) ==
    /\ BagIn(lunch, lunch_tracking)
    /\ lunch_tracking' = (lunch_tracking (-) SetToBag({lunch}))
                            (+) SetToBag({[lunch EXCEPT !.status = status]})
    /\ UNCHANGED <<now, practices, contact_log, cookie_visits,
                   thank_you_letters, reminder_days>>
    /\ UNCHANGED restVars

add_cookie_visit(data) ==
    /\ cookie_visits' = cookie_visits (+) SetToBag({data})
    /\ UNCHANGED <<now, practices, contact_log, lunch_tracking,
                   thank_you_letters, reminder_days>>
    /\ UNCHANGED restVars

add_thank_you(data) ==
    /\ thank_you_letters' = thank_you_letters (+) SetToBag({data})
    /\ UNCHANGED <<now, practices, contact_log, lunch_tracking,
                   cookie_visits, reminder_days>>
    /\ UNCHANGED restVars

\* update_practice(id, {"status": new_status}), the archive button
update_practice_status(practice_id, new_status) ==
    /\ practices' = [practices EXCEPT ![practice_id].status = new_status]
    /\ UNCHANGED <<now, contact_log, lunch_tracking, cookie_visits,
                   thank_you_letters, reminder_days>>
    /\ UNCHANGED restVars

(***************************************************************************)
(* utils.py: relationship_score.                                           *)
(***************************************************************************)
\* recent contact bonus, from the first row of the query
recent_contact_bonus(contacts) ==
    IF contacts # <<>>
    THEN LET days == days_since(contacts[1].contact_date)
         IN  IF ~days.none
             THEN IF days.days <= 30 THEN 20
                  ELSE IF days.days <= 60 THEN 10
                  ELSE IF days.days <= 90 THEN 5
                  ELSE 0
             ELSE 0
    ELSE 0

WithinDays(date_str, n) ==
    ~days_since(date_str).none /\ days_since(date_str).days <= n

IsRecentContact(c) == WithinDays(c.contact_date, 180)

IsCompletedLunch(l) == l.status = "Completed"

IsRecentCookie(cv) == WithinDays(cv.visit_date, 180)

recent_contacts(contacts) == SelectSeq(contacts, IsRecentContact)

completed_lunches(lunches) == SelectSeq(lunches, IsCompletedLunch)

recent_cookies(cookies) == SelectSeq(cookies, IsRecentCookie)

contact_types(contacts) ==
    {contacts[i].contact_type : i \in 1..Len(contacts)}

\* a version written without the caps and without the final clamp
relationship_score_uncapped(practice_id) ==
    LET contacts == get_contact_log(practice_id, 100)
        lunches == get_lunches(practice_id, "")
        cookies == get_cookie_visits(practice_id)
    IN  recent_contact_bonus(contacts)
          + Len(recent_contacts(contacts)) * 5
          + Len(completed_lunches(lunches)) * 10
          + Len(recent_cookies(cookies)) * 5
          + Cardinality(contact_types(contacts)) * 3

\* a version whose lunch contribution is not capped at 25
relationship_score_lunch_uncapped(practice_id) ==
    LET contacts == get_contact_log(practice_id, 100)
        lunches == get_lunches(practice_id, "")
        cookies == get_cookie_visits(practice_id)
        score == recent_contact_bonus(contacts)
                   + Min(Len(recent_contacts(contacts)) * 5, 30)
                   + Len(completed_lunches(lunches)) * 10
                   + Min(Len(recent_cookies(cookies)) * 5, 15)
                   + Min(Cardinality(contact_types(contacts)) * 3, 10)
    IN  Min(score, 100)

relationship_score(practice_id) ==
    LET contacts == get_contact_log(practice_id, 100)
        lunches == get_lunches(practice_id, "")
        cookies == get_cookie_visits(practice_id)
        score == recent_contact_bonus(contacts)
                   + Min(Len(recent_contacts(contacts)) * 5, 30)
                   + Min(Len(completed_lunches(lunches)) * 10, 25)
                   + Min(Len(recent_cookies(cookies)) * 5, 15)
                   + Min(Cardinality(contact_types(contacts)) * 3, 10)
    IN  Min(score, 100)

(***************************************************************************)
(* utils.py: get_overdue_items.  An item is [type, practice, practice_id,  *)
(* days_overdue, priority]; the detail text is not modelled.               *)
(***************************************************************************)
\* Python's `if days`: neither None nor 0
Truthy(days) == ~days.none /\ days.days # 0

Item(type, practice_id, days_overdue, priority) ==
    [type |-> type, practice |-> practices[practice_id].name,
     practice_id |-> practice_id, days_overdue |-> days_overdue,
     priority |-> priority]

\* a version whose `else` hangs on the inner `if`: No Contact is emitted
\* whenever no follow-up is overdue
contact_items_dangling_else(pid) ==
    LET contacts == get_contact_log(pid, 1)
        days == IF contacts # <<>>
                THEN days_since(contacts[1].contact_date)
                ELSE None
    IN  IF contacts # <<>> /\ Truthy(days) /\ days.days > reminder_days
        THEN <<Item("Follow-up Overdue", pid, days.days - reminder_days,
                    IF days.days > 120 THEN "high" ELSE "medium")>>
        ELSE <<Item("No Contact", pid, 0, "high")>>

\* check last contact date
contact_items(pid) ==
    LET contacts == get_contact_log(pid, 1)
    IN  IF contacts # <<>>
        THEN LET days == days_since(contacts[1].contact_date)
             IN  IF Truthy(days) /\ days.days > reminder_days
                 THEN <<Item("Follow-up Overdue", pid,
                             days.days - reminder_days,
                             IF days.days > 120 THEN "high" ELSE "medium")>>
                 ELSE <<>>
        ELSE <<Item("No Contact", pid, 0, "high")>>

IsOverdueThankYou(ty) ==
    Truthy(days_since(ty.created_at)) /\ days_since(ty.created_at).days > 7

\* pending thank you letters
thank_you_items(pid) ==
    LET overdue == SelectSeq(get_thank_yous(pid, "Pending"),
                             IsOverdueThankYou)
    IN  [i \in 1..Len(overdue) |->
           Item("Thank You Letter", pid,
                days_since(overdue[i].created_at).days - 7, "medium")]

IsLunchInThePast(lunch) ==
    /\ lunch.scheduled_date.fmt # "none"
    /\ ~days_since(lunch.scheduled_date).none
    /\ days_since(lunch.scheduled_date).days > 0

IsLunchAhead(lunch) ==
    /\ lunch.scheduled_date.fmt # "none"
    /\ ~days_since(lunch.scheduled_date).none
    /\ days_since(lunch.scheduled_date).days < 0

\* a version that flags the Scheduled lunches whose date has passed
lunch_items_past(pid) ==
    LET passed == SelectSeq(get_lunches(pid, "Scheduled"), IsLunchInThePast)
    IN  [i \in 1..Len(passed) |->
           Item("Upcoming Lunch", pid,
                days_since(passed[i].scheduled_date).days, "medium")]

\* scheduled lunches approaching
lunch_items(pid) ==
    LET ahead == SelectSeq(get_lunches(pid, "Scheduled"), IsLunchAhead)
    IN  [i \in 1..Len(ahead) |->
           Item("Upcoming Lunch", pid,
                days_since(ahead[i].scheduled_date).days, "medium")]

\* the body of the loop over the practices
practice_items(pid) ==
    contact_items(pid) \o thank_you_items(pid) \o lunch_items(pid)

\* a version that leaves the items in the order they were appended
sort_omitted(items) == items

\* items.sort(key=days_overdue, reverse=True): a stable sort, descending
sort_by_days_overdue(items) ==
    LET Insert(sorted, x) ==
            LET k == Cardinality({i \in 1..Len(sorted) :
                        sorted[i].days_overdue >= x.days_overdue})
            IN  SubSeq(sorted, 1, k) \o <<x>>
                  \o SubSeq(sorted, k + 1, Len(sorted))
        upto[n \in 0..Len(items)] ==
            IF n = 0 THEN <<>> ELSE Insert(upto[n - 1], items[n])
    IN  upto[Len(items)]

get_overdue_items ==
    LET active == get_all_practices("Active")
        appended[n \in 0..Len(active)] ==
            IF n = 0 THEN <<>>
            ELSE appended[n - 1] \o practice_items(active[n])
    IN  sort_by_days_overdue(appended[Len(active)])

(***************************************************************************)
(* The tables and the clock at rest, and the normalizer at rest.           *)
(***************************************************************************)
\* practices as add_practice left them: every new practice is Active
InitialPractices ==
    <<[name |-> "ABC Clinic", status |-> "Active"],
      [name |-> "ABC Clinic (Branch)", status |-> "Active"]>>

\* _DEFAULT_CONFIG["reminder_days"]["lunch_followup"]
DefaultLunchFollowup == 90

InitCalendarIdle ==
    /\ call_attempts = EmptyBag
    /\ events = EmptyBag

InitRecordsIdle ==
    /\ provider_history = EmptyBag
    /\ flyer_campaigns = <<>>
    /\ flyer_recipients = EmptyBag
    /\ fax_form = [active_fax_form |-> 0, show_contact_success |-> FALSE]
    /\ config_file = [readable |-> FALSE, json |-> <<>>]
    /\ config = [loaded |-> FALSE, value |-> <<>>]

InitDb ==
    /\ InitCalendarIdle
    /\ InitRecordsIdle
    /\ now = [day |-> 0, tod |-> 0]
    /\ practices = InitialPractices
    /\ contact_log = EmptyBag
    /\ lunch_tracking = EmptyBag
    /\ cookie_visits = EmptyBag
    /\ thank_you_letters = EmptyBag
    /\ reminder_days = DefaultLunchFollowup
    /\ providers = {}
    /\ huntsville_zips = {}
    /\ woodlands_zips = {}

InitFaxIdle ==
    /\ fax_number = <<>>
    /\ domain = VonageDomain
    /\ vonage_email = <<>>
    /\ email_valid = FALSE
    /\ fax_pc = "input"

\* the parsers before any text has been handed to them
InitParseIdle ==
    /\ contact_info = <<>>
    /\ phone = <<>>
    /\ address = <<>>
    /\ location_category = "Other"
    /\ providers_text = <<>>
    /\ provider_names = <<>>
    /\ parse_pc = "idle"

\* import_excel: the stats dict as the function initialises it
InitialStats ==
    [practices_imported |-> 0, providers_imported |-> 0,
     fax_numbers_found |-> 0, rows_processed |-> 0, skipped_rows |-> 0]

\* no import and no repair has run
\* no repair has returned a result yet
NoFixResult == [returned |-> FALSE, fixed |-> 0, errors |-> <<>>]

InitImportIdle ==
    /\ sheet = <<>>
    /\ import_row = 0
    /\ current_practice_name = <<>>
    /\ stats = InitialStats
    /\ import_pc = "idle"
    /\ fix_result = NoFixResult

(***************************************************************************)
(* The normalizer's inputs: what the Fax field of the add and edit forms   *)
(* can hold, and the domains the configuration can hold.                   *)
(***************************************************************************)
MaxFaxDigits == 12

FaxAlphabet == {"1", "5"}

DigitStrings == UNION {[1..n -> FaxAlphabet] : n \in 0..MaxFaxDigits}

\* NNN-NNN-NNNN..., the shape parse_fax_number writes
RECURSIVE Dashed(_)
Dashed(d) ==
    IF Len(d) <= 3 THEN d
    ELSE SubSeq(d, 1, 3) \o <<"-">> \o Dashed(SubSeq(d, 4, Len(d)))

\* " (NNN) NNNNNNN ", as typed by hand
Parenthesized(d) ==
    IF Len(d) <= 3 THEN <<" ">> \o d \o <<" ">>
    ELSE <<" ", "(">> \o SubSeq(d, 1, 3) \o <<")", " ">>
           \o SubSeq(d, 4, Len(d)) \o <<" ">>

ExampleFax == <<"1", "9", "3", "6", "5", "5", "5", "1", "2", "1", "2">>

ExampleDomain ==
    <<"f", "a", "x", ".", "e", "x", "a", "m", "p", "l", "e", ".", "c", "o",
      "m">>

FaxInputs ==
    {ExampleFax}
      \cup DigitStrings
      \cup {Dashed(d) : d \in DigitStrings}
      \cup {Parenthesized(d) : d \in DigitStrings}

DomainInputs == {VonageDomain, ExampleDomain}

InitFax ==
    /\ InitCalendarIdle
    /\ InitRecordsIdle
    /\ fax_number \in FaxInputs
    /\ domain \in DomainInputs
    /\ vonage_email = <<>>
    /\ email_valid = FALSE
    /\ fax_pc = "input"
    /\ InitDb
    /\ InitParseIdle
    /\ InitImportIdle

\* providers.py: vonage_email = fax_to_vonage_email(fax, domain) if fax else ""
Convert ==
    /\ fax_pc = "input"
    /\ vonage_email' = IF fax_number # <<>>
                       THEN fax_to_vonage_email(fax_number, domain)
                       ELSE <<>>
    /\ fax_pc' = "converted"
    /\ UNCHANGED <<fax_number, domain, email_valid>>
    /\ UNCHANGED <<dbVars, parseVars, importVars, calendarVars, recordVars>>

\* providers.py, flyer_campaigns.py: validate_vonage_email(fax_email)
Validate ==
    /\ fax_pc = "converted"
    /\ email_valid' = validate_vonage_email(vonage_email)
    /\ fax_pc' = "validated"
    /\ UNCHANGED <<fax_number, domain, vonage_email>>
    /\ UNCHANGED <<dbVars, parseVars, importVars, calendarVars, recordVars>>

NextFax == Convert \/ Validate

SpecFax == InitFax /\ [][NextFax]_vars

(***************************************************************************)
(* The scoring engine's inputs: the history of one practice, written by    *)
(* the handlers that log contacts, lunches and cookie visits.              *)
(***************************************************************************)
MaxContacts == 5

MaxLunches == 4

MaxCookies == 3

ScoredPractices == {1}

\* contact rows as the handlers write them: the Log Contact dialog and the
\* lunch handlers stamp datetime.isoformat(), the cookie dialog and a
\* text cell of the imported sheet give a plain date
ContactInputs ==
    {[contact_type |-> "Phone Call", contact_date |-> DateTimeT(0, 0)],
     [contact_type |-> "Cookie Visit", contact_date |-> DateText(-30)],
     [contact_type |-> "Other", contact_date |-> DateText(-91)],
     [contact_type |-> "Lunch", contact_date |-> DateTimeT(-200, 1)]}

CookieInputs == {DateText(-180), DateText(-181)}

LunchDateInputs == {DateText(-14)}

InitScore == InitFaxIdle /\ InitDb /\ InitParseIdle /\ InitImportIdle

\* a handler appends one contact_log row
LogContact ==
    \E p \in ScoredPractices, c \in ContactInputs :
        /\ BagCardinality(contact_log) < MaxContacts
        /\ add_contact_log([practice_id |-> p,
                            contact_type |-> c.contact_type,
                            contact_date |-> c.contact_date])

\* providers.py _lunch_dialog: add_lunch with status Scheduled
ScheduleLunch ==
    \E p \in ScoredPractices, d \in LunchDateInputs :
        /\ BagCardinality(lunch_tracking) < MaxLunches
        /\ add_lunch([practice_id |-> p, status |-> "Scheduled",
                      scheduled_date |-> d])

\* action_items.py: update_lunch(id, {"status": "Completed", ...})
CompleteLunch ==
    \E l \in BagToSet(lunch_tracking) :
        /\ l.status = "Scheduled"
        /\ update_lunch(l, "Completed")

\* action_items.py: add_cookie_visit with visit_date.isoformat()
LogCookieVisit ==
    \E p \in ScoredPractices, d \in CookieInputs :
        /\ BagCardinality(cookie_visits) < MaxCookies
        /\ add_cookie_visit([practice_id |-> p, visit_date |-> d])

NextScore == LogContact \/ ScheduleLunch \/ CompleteLunch \/ LogCookieVisit

SpecScore == InitScore /\ [][NextScore]_vars

(***************************************************************************)
(* Claims about relationship_score, checked under SpecScore.               *)
(***************************************************************************)
\* C1: for every practice and every activity history, relationship_score
\* returns an integer s with 0 <= s <= 100.
C1_ScoreBounded ==
    \A p \in DOMAIN practices :
        /\ relationship_score(p) \in Int
        /\ 0 <= relationship_score(p)
        /\ relationship_score(p) <= 100

\* the history holds five contacts and four Completed lunches, and the
\* capped contributions add up to 90 or more
C1_Witness ==
    \E p \in DOMAIN practices :
        /\ relationship_score(p) >= 90
        /\ Len(completed_lunches(get_lunches(p, ""))) = 4
        /\ Len(get_contact_log(p, 100)) = 5

\* whole days elapsed since a stored date
AgeInDays(d) == ((now.day - d.day) * 2 + (now.tod - d.tod)) \div 2

ContactsOf(p) == {x \in Rows(contact_log) : x.row.practice_id = p}

CookiesOf(p) == {x \in Rows(cookie_visits) : x.row.practice_id = p}

CompletedLunchesOf(p) ==
    {x \in Rows(lunch_tracking) :
       x.row.practice_id = p /\ x.row.status = "Completed"}

ClaimedRecency(p) ==
    IF ContactsOf(p) = {} THEN 0
    ELSE LET newest == CHOOSE x \in ContactsOf(p) : \A y \in ContactsOf(p) :
                           AgeInDays(x.row.contact_date)
                             <= AgeInDays(y.row.contact_date)
             age == AgeInDays(newest.row.contact_date)
         IN  IF age <= 30 THEN 20
             ELSE IF age <= 60 THEN 10
             ELSE IF age <= 90 THEN 5
             ELSE 0

ClaimedFrequency(p) ==
    Min(5 * Cardinality({x \in ContactsOf(p) :
                           AgeInDays(x.row.contact_date) <= 180}), 30)

ClaimedLunches(p) == Min(10 * Cardinality(CompletedLunchesOf(p)), 25)

ClaimedCookies(p) ==
    Min(5 * Cardinality({x \in CookiesOf(p) :
                           AgeInDays(x.row.visit_date) <= 180}), 15)

ClaimedVariety(p) ==
    Min(3 * Cardinality({x.row.contact_type : x \in ContactsOf(p)}), 10)

\* C2: relationship_score equals the sum of five capped contributions:
\* recency of the most recent contact (20, 10, 5 or 0), 5 per contact of
\* the trailing 180 days (cap 30), 10 per Completed lunch (cap 25), 5 per
\* cookie visit of the trailing 180 days (cap 15) and 3 per distinct
\* contact type (cap 10); the final clamp never changes the sum.
C2_ScoreIsSumOfContributions ==
    \A p \in DOMAIN practices :
        relationship_score(p) =
            ClaimedRecency(p) + ClaimedFrequency(p) + ClaimedLunches(p)
              + ClaimedCookies(p) + ClaimedVariety(p)

\* C3: adding one more Completed lunch, everything else fixed, never
\* decreases relationship_score, and leaves it unchanged once the lunch
\* contribution has reached its cap of 25.
C3_LunchMonotone ==
    [][\A p \in DOMAIN practices :
         (/\ Cardinality(CompletedLunchesOf(p))'
               = Cardinality(CompletedLunchesOf(p)) + 1
          /\ UNCHANGED <<now, practices, contact_log, cookie_visits>>)
         => /\ relationship_score(p)' >= relationship_score(p)
            /\ ClaimedLunches(p) = 25
                 => relationship_score(p)' = relationship_score(p)]_vars

\* a fourth lunch has been completed after the cap was reached
C3_Witness ==
    \E p \in DOMAIN practices :
        /\ Cardinality(CompletedLunchesOf(p)) = 4
        /\ relationship_score(p) >= 25

(***************************************************************************)
(* The overdue deriver's inputs: two practices, their contacts, lunches    *)
(* and thank-you letters, the archive button and the settings page.        *)
(***************************************************************************)
MaxRows == 3

StoredRows ==
    BagCardinality(contact_log) + BagCardinality(lunch_tracking)
      + BagCardinality(thank_you_letters)

\* the last contact 90, 91 and 121 days ago as plain dates, and 200 days
\* ago as the Log Contact dialog and the import stamp it
OverdueContactInputs ==
    {DateText(-90), DateText(-91), DateText(-121), DateTimeT(-200, 0)}

\* st.date_input of the lunch dialog: in three days, today, three days ago
ScheduledDateInputs == {DateText(3), DateText(0), DateText(-3)}

\* created_at DEFAULT CURRENT_TIMESTAMP, eight and a half and seven and a
\* half days before now
ThankYouCreatedInputs == {DateTimeSpace(-9, 1), DateTimeSpace(-8, 1)}

\* st.number_input("Lunch Follow-up Reminder")
ReminderInputs == {60, 90}

InitOverdue == InitFaxIdle /\ InitDb /\ InitParseIdle /\ InitImportIdle

OverdueLogContact ==
    \E p \in DOMAIN practices, d \in OverdueContactInputs :
        /\ StoredRows < MaxRows
        /\ add_contact_log([practice_id |-> p, contact_type |-> "Other",
                            contact_date |-> d])

OverdueScheduleLunch ==
    \E p \in DOMAIN practices, d \in ScheduledDateInputs :
        /\ StoredRows < MaxRows
        /\ add_lunch([practice_id |-> p, status |-> "Scheduled",
                      scheduled_date |-> d])

\* action_items.py: add_thank_you with status Pending
AddThankYou ==
    \E p \in DOMAIN practices, d \in ThankYouCreatedInputs :
        /\ StoredRows < MaxRows
        /\ add_thank_you([practice_id |-> p, status |-> "Pending",
                          created_at |-> d])

\* providers.py: the Archive / Reactivate button
ToggleArchive ==
    \E p \in DOMAIN practices :
        update_practice_status(p, IF practices[p].status = "Active"
                                  THEN "Inactive" ELSE "Active")

\* settings.py: config["reminder_days"]["lunch_followup"] = int(lunch_days)
SaveReminderDays ==
    \E d \in ReminderInputs :
        /\ reminder_days' = d
        /\ UNCHANGED <<now, practices, contact_log, lunch_tracking,
                       cookie_visits, thank_you_letters>>
        /\ UNCHANGED restVars

NextOverdue ==
    \/ OverdueLogContact
    \/ OverdueScheduleLunch
    \/ CompleteLunch
    \/ AddThankYou
    \/ ToggleArchive
    \/ SaveReminderDays

SpecOverdue == InitOverdue /\ [][NextOverdue]_vars

(***************************************************************************)
(* Claims about get_overdue_items, checked under SpecOverdue.              *)
(***************************************************************************)
ActivePractices == {p \in DOMAIN practices : practices[p].status = "Active"}

ItemsOf(p, type) ==
    {i \in 1..Len(get_overdue_items) :
       /\ get_overdue_items[i].practice_id = p
       /\ get_overdue_items[i].type = type}

\* C4: every Active practice with zero contact-log entries has exactly one
\* "No Contact" item, with priority high and days_overdue 0, and no
\* "Follow-up Overdue" item; a practice with at least one contact-log
\* entry has no "No Contact" item.
C4_NoContactItem ==
    /\ \A p \in ActivePractices :
          ContactsOf(p) = {} =>
            /\ Cardinality(ItemsOf(p, "No Contact")) = 1
            /\ \A i \in ItemsOf(p, "No Contact") :
                  /\ get_overdue_items[i].priority = "high"
                  /\ get_overdue_items[i].days_overdue = 0
            /\ ItemsOf(p, "Follow-up Overdue") = {}
    /\ \A p \in DOMAIN practices :
          ContactsOf(p) # {} => ItemsOf(p, "No Contact") = {}

\* one Active practice has no contact and a second item of its own, the
\* other has a contact logged
C4_Witness ==
    \E p, q \in ActivePractices :
        /\ ContactsOf(p) = {}
        /\ ItemsOf(p, "No Contact") # {}
        /\ ItemsOf(p, "Upcoming Lunch") # {}
        /\ ContactsOf(q) # {}

NewestContactAge(p) ==
    LET newest == CHOOSE x \in ContactsOf(p) : \A y \in ContactsOf(p) :
                      AgeInDays(x.row.contact_date)
                        <= AgeInDays(y.row.contact_date)
    IN  AgeInDays(newest.row.contact_date)

\* C5: for every Active practice whose most recent contact is older than
\* the follow-up threshold there is a "Follow-up Overdue" item with
\* days_overdue = days since that contact - threshold and priority high
\* if the days since the contact exceed 120, medium otherwise; there is no
\* such item when the most recent contact is within the threshold.
C5_FollowUpOverdueItem ==
    \A p \in ActivePractices :
        ContactsOf(p) # {} =>
          IF NewestContactAge(p) > reminder_days
          THEN \E i \in ItemsOf(p, "Follow-up Overdue") :
                 /\ get_overdue_items[i].days_overdue
                      = NewestContactAge(p) - reminder_days
                 /\ get_overdue_items[i].days_overdue > 0
                 /\ get_overdue_items[i].priority
                      = IF NewestContactAge(p) > 120 THEN "high"
                        ELSE "medium"
          ELSE ItemsOf(p, "Follow-up Overdue") = {}

ScheduledLunchesOf(p) ==
    {x \in Rows(lunch_tracking) :
       /\ x.row.practice_id = p
       /\ x.row.status = "Scheduled"
       /\ x.row.scheduled_date.fmt # "none"}

\* C6 as stated: there is an "Upcoming Lunch" item (priority medium) for a
\* lunch of an Active practice exactly when the lunch is Scheduled and its
\* date is in the past; a Scheduled lunch dated in the future has none.
C6_UpcomingLunchIsPastDue ==
    \A p \in ActivePractices :
        /\ Cardinality(ItemsOf(p, "Upcoming Lunch"))
             = Cardinality({x \in ScheduledLunchesOf(p) :
                              x.row.scheduled_date.day < now.day})
        /\ \A i \in ItemsOf(p, "Upcoming Lunch") :
              get_overdue_items[i].priority = "medium"

\* C6 as amended: there is an "Upcoming Lunch" item (priority medium,
\* days_overdue the negative number of days to go) for a lunch of an
\* Active practice exactly when the lunch is Scheduled and its date is
\* after today; a Scheduled lunch dated today or earlier has none.
C6_UpcomingLunchIsAhead ==
    /\ \A p \in ActivePractices :
          /\ Cardinality(ItemsOf(p, "Upcoming Lunch"))
               = Cardinality({x \in ScheduledLunchesOf(p) :
                                x.row.scheduled_date.day > now.day})
          /\ \A i \in ItemsOf(p, "Upcoming Lunch") :
                /\ get_overdue_items[i].priority = "medium"
                /\ \E x \in ScheduledLunchesOf(p) :
                      /\ x.row.scheduled_date.day > now.day
                      /\ get_overdue_items[i].days_overdue
                           = now.day - x.row.scheduled_date.day
    /\ \A p \in DOMAIN practices \ ActivePractices :
          ItemsOf(p, "Upcoming Lunch") = {}

\* an Active practice has a Scheduled lunch ahead, with its item, and a
\* Scheduled lunch that is past, without one
C6_Witness ==
    \E p \in ActivePractices :
        /\ \E x \in ScheduledLunchesOf(p) : x.row.scheduled_date.day > now.day
        /\ \E x \in ScheduledLunchesOf(p) : x.row.scheduled_date.day < now.day
        /\ Cardinality(ItemsOf(p, "Upcoming Lunch")) = 1

\* C7: the list get_overdue_items returns is sorted by days_overdue in
\* non-increasing order.
C7_SortedByDaysOverdue ==
    \A i \in 1..(Len(get_overdue_items) - 1) :
        get_overdue_items[i].days_overdue
          >= get_overdue_items[i + 1].days_overdue

\* the list holds a positively overdue item, a No Contact item and an
\* Upcoming Lunch item with negative days_overdue
C7_Witness ==
    /\ \E i \in 1..Len(get_overdue_items) :
          get_overdue_items[i].days_overdue > 0
    /\ \E i \in 1..Len(get_overdue_items) :
          get_overdue_items[i].type = "No Contact"
    /\ \E i \in 1..Len(get_overdue_items) :
          get_overdue_items[i].days_overdue < 0

(***************************************************************************)
(* Claims about the fax-to-email normalizer, checked under SpecFax.        *)
(***************************************************************************)
DigitsOf(s) == SelectSeq(s, IsDigit)

LastTen(d) == SubSeq(d, Len(d) - 9, Len(d))

\* C8: for every fax input that normalizes to ten digits D and every
\* domain passed, the conversion returns exactly "1" + D + "@" + domain:
\* plain digits, no parentheses, the domain that was supplied.
C8_PlainDigitsAtSuppliedDomain ==
    (fax_pc # "input" /\ Len(DigitsOf(fax_number)) >= 10)
        => vonage_email =
             <<"1">> \o LastTen(DigitsOf(fax_number)) \o <<"@">> \o domain

\* C9: fewer than ten digits yield the empty string; an input with ten or
\* more digits is treated as its last ten digits, so the input and its
\* last-ten-digit suffix produce the same non-empty address.
C9_FaxDigitNormalization ==
    fax_pc # "input" =>
        LET d == DigitsOf(fax_number)
        IN  /\ Len(d) < 10 => vonage_email = <<>>
            /\ Len(d) >= 10 =>
                  /\ vonage_email # <<>>
                  /\ DigitsOf(vonage_email) = <<"1">> \o LastTen(d)
                  /\ vonage_email = convert_fax_to_vonage_email(LastTen(d))

\* a punctuated twelve-digit number has been converted
C9_Witness ==
    /\ fax_pc = "converted"
    /\ Len(DigitsOf(fax_number)) = 12
    /\ Len(fax_number) > 12
    /\ vonage_email # <<>>

\* C10: the address produced for a valid ten-digit fax number is accepted
\* by validate_vonage_email, and so is every non-empty address the
\* conversion produces.
C10_FaxRoundTrip ==
    fax_pc = "validated" =>
        /\ vonage_email # <<>> => email_valid
        /\ (Len(fax_number) = 10 /\ AllDigits(fax_number)) =>
              (vonage_email # <<>> /\ email_valid)

\* a ten-digit number has been converted and its address validated
C10_Witness ==
    /\ fax_pc = "validated"
    /\ Len(fax_number) = 10
    /\ AllDigits(fax_number)
    /\ email_valid

(***************************************************************************)
(* More text helpers: case mapping, substring search, lines.               *)
(***************************************************************************)
LowerLetters ==
    <<"a", "b", "c", "d", "e", "f", "g", "h", "i", "j", "k", "l", "m", "n",
      "o", "p", "q", "r", "s", "t", "u", "v", "w", "x", "y", "z">>

UpperLetters ==
    <<"A", "B", "C", "D", "E", "F", "G", "H", "I", "J", "K", "L", "M", "N",
      "O", "P", "Q", "R", "S", "T", "U", "V", "W", "X", "Y", "Z">>

Range(f) == {f[i] : i \in DOMAIN f}

\* str.upper() and str.lower(), one character
UpperChar(ch) ==
    IF ch \in Range(LowerLetters)
    THEN UpperLetters[CHOOSE i \in DOMAIN LowerLetters : LowerLetters[i] = ch]
    ELSE ch

LowerChar(ch) ==
    IF ch \in Range(UpperLetters)
    THEN LowerLetters[CHOOSE i \in DOMAIN UpperLetters : UpperLetters[i] = ch]
    ELSE ch

Upper(s) == [i \in 1..Len(s) |-> UpperChar(s[i])]

Lower(s) == [i \in 1..Len(s) |-> LowerChar(s[i])]

\* Python's `kw in s`
Contains(s, kw) ==
    \E i \in 1..(Len(s) - Len(kw) + 1) : SubSeq(s, i, i + Len(kw) - 1) = kw

\* s.split("\n")
Split(s) ==
    LET cuts == {0, Len(s) + 1} \cup {i \in 1..Len(s) : s[i] = "\n"}
        NextCut(i) == CHOOSE j \in cuts : j > i /\ \A k \in cuts : k > i => j <= k
        from[i \in cuts] ==
            IF i = Len(s) + 1 THEN <<>>
            ELSE <<SubSeq(s, i + 1, NextCut(i) - 1)>> \o from[NextCut(i)]
    IN  from[0]

\* "\n".join(lines)
Join(lines) ==
    LET upto[n \in 0..Len(lines)] ==
            IF n = 0 THEN <<>>
            ELSE IF n = 1 THEN lines[1]
            ELSE upto[n - 1] \o <<"\n">> \o lines[n]
    IN  upto[Len(lines)]

(***************************************************************************)
(* Regular expressions, as far as the parsers use them.  A pattern is a    *)
(* sequence of items, each a character class with a quantifier (exactly    *)
(* one, `?` or `*`) and a flag saying whether the character is captured.   *)
(* An alternation or an optional group is written as the set of its        *)
(* expansions.                                                             *)
(***************************************************************************)
One(cls) == [cls |-> cls, q |-> "one", cap |-> FALSE]

Opt(cls) == [cls |-> cls, q |-> "opt", cap |-> FALSE]

Star(cls) == [cls |-> cls, q |-> "star", cap |-> FALSE]

\* (\d), one captured digit
CapDigit == [cls |-> Digits, q |-> "one", cap |-> TRUE]

\* the literal text `word`
Lit(word) == [i \in 1..Len(word) |-> One({word[i]})]

\* [Pp]hone: the first letter in either case, the rest literal
Capitalizable(word) ==
    <<One({word[1], UpperChar(word[1])})>> \o Lit(Tail(word))

\* [Ff][Aa][Xx]: every letter in either case
AnyCase(word) == [i \in 1..Len(word) |-> One({word[i], UpperChar(word[i])})]

\* [-.\s]
Separator == {"-", "."} \cup Whitespace

\* every way `pat` matches s from position i on: the position after the
\* match and the captured characters
RECURSIVE MatchFrom(_, _, _, _, _)
MatchFrom(pat, k, s, i, cap) ==
    IF k > Len(pat) THEN {[end |-> i, groups |-> cap]}
    ELSE LET it == pat[k]
             skip == IF it.q = "one" THEN {}
                     ELSE MatchFrom(pat, k + 1, s, i, cap)
             take == IF i <= Len(s) /\ s[i] \in it.cls
                     THEN MatchFrom(pat, IF it.q = "star" THEN k ELSE k + 1,
                                    s, i + 1,
                                    IF it.cap THEN Append(cap, s[i]) ELSE cap)
                     ELSE {}
         IN  skip \cup take

MatchesAt(alternatives, s, i) ==
    UNION {MatchFrom(pat, 1, s, i, <<>>) : pat \in alternatives}

\* re.search: the captured characters of the leftmost match, <<>> if the
\* pattern matches nowhere (every pattern searched for captures ten digits)
Search(alternatives, s) ==
    LET starts == {i \in 1..(Len(s) + 1) : MatchesAt(alternatives, s, i) # {}}
    IN  IF starts = {} THEN <<>>
        ELSE LET first == CHOOSE i \in starts : \A j \in starts : i <= j
             IN  (CHOOSE m \in MatchesAt(alternatives, s, first) : TRUE).groups

\* f"{groups[0]}-{groups[1]}-{groups[2]}"
FormatGroups(d) ==
    SubSeq(d, 1, 3) \o <<"-">> \o SubSeq(d, 4, 6) \o <<"-">> \o SubSeq(d, 7, 10)

\* (\d{3})
Cap3 == <<CapDigit, CapDigit, CapDigit>>

\* \s*:?\s*\(?\s*(\d{3})\s*\)?\s*[-.\s]*(\d{3})\s*[-.\s]*(\d{4})
LabelledNumber ==
    <<Star(Whitespace), Opt({":"}), Star(Whitespace), Opt({"("}),
      Star(Whitespace)>> \o Cap3
      \o <<Star(Whitespace), Opt({")"}), Star(Whitespace), Star(Separator)>>
      \o Cap3 \o <<Star(Whitespace), Star(Separator)>> \o Cap3
      \o <<CapDigit>>

(***************************************************************************)
(* data_import.py: parse_fax_number and parse_phone_number.                *)
(***************************************************************************)
\* [Ff][Aa][Xx]\s*(?:[Nn]umber)?<LabelledNumber>
FaxPattern1 ==
    {AnyCase(<<"f", "a", "x">>) \o LabelledNumber,
     AnyCase(<<"f", "a", "x">>) \o <<Star(Whitespace)>> \o Capitalizable(<<"n", "u", "m", "b", "e", "r">>)
       \o LabelledNumber}

\* [Ff][Aa][Xx]\s*:?\s*(\d{3})\s*[-.\s]*(\d{3})\s*[-.\s]*(\d{4})
FaxPattern2 ==
    {AnyCase(<<"f", "a", "x">>)
       \o <<Star(Whitespace), Opt({":"}), Star(Whitespace)>> \o Cap3
       \o <<Star(Whitespace), Star(Separator)>> \o Cap3
       \o <<Star(Whitespace), Star(Separator)>> \o Cap3 \o <<CapDigit>>}

\* (?:[Pp]hone|[Pp][Hh]|[Tt]el|[Oo]ffice)<LabelledNumber>
PhonePattern1 ==
    {Capitalizable(<<"p", "h", "o", "n", "e">>) \o LabelledNumber,
     AnyCase(<<"p", "h">>) \o LabelledNumber,
     Capitalizable(<<"t", "e", "l">>) \o LabelledNumber,
     Capitalizable(<<"o", "f", "f", "i", "c", "e">>) \o LabelledNumber}

\* \((\d{3})\)\s*(\d{3})\s*[-.\s]*(\d{4})
PhonePattern2 ==
    {<<One({"("})>> \o Cap3 \o <<One({")"}), Star(Whitespace)>> \o Cap3
       \o <<Star(Whitespace), Star(Separator)>> \o Cap3 \o <<CapDigit>>}

\* (\d{3})\s*[-.\s](\d{3})\s*[-.\s](\d{4})
PhonePattern3 ==
    {Cap3 \o <<Star(Whitespace), One(Separator)>> \o Cap3
       \o <<Star(Whitespace), One(Separator)>> \o Cap3 \o <<CapDigit>>}

\* for pattern in patterns: the first pattern that matches anywhere wins
FirstMatch(patterns, text) ==
    LET found == {n \in 1..Len(patterns) : Search(patterns[n], text) # <<>>}
    IN  IF found = {} THEN <<>>
        ELSE FormatGroups(Search(patterns[CHOOSE n \in found :
                                             \A m \in found : n <= m], text))

parse_fax_number(text) ==
    IF text = <<>> THEN <<>>
    ELSE FirstMatch(<<FaxPattern1, FaxPattern2>>, text)

IsFaxLine(line) == Contains(Lower(line), <<"f", "a", "x">>)

parse_phone_number(text) ==
    IF text = <<>> THEN <<>>
    ELSE LET lines == Split(text)
             kept[n \in 0..Len(lines)] ==
                 IF n = 0 THEN <<>>
                 ELSE IF IsFaxLine(lines[n]) THEN kept[n - 1]
                 ELSE Append(kept[n - 1], lines[n])
             non_fax_lines == kept[Len(lines)]
             searched == IF non_fax_lines # <<>> THEN Join(non_fax_lines)
                         ELSE text
         IN  FirstMatch(<<PhonePattern1, PhonePattern2, PhonePattern3>>,
                        searched)

(***************************************************************************)
(* The contact-information cell handed to parse_phone_number: up to        *)
(* MaxContactLines lines, each a labelled or unlabelled number.            *)
(***************************************************************************)
MaxContactLines == 3

ContactLines ==
    {<<"F", "a", "x", ":", " ", "9", "3", "6", "-", "5", "5", "5", "-", "1", "2", "1", "2">>,
     <<"F", "A", "X", " ", "(", "9", "3", "6", ")", " ", "5", "5", "5", "-", "1", "2", "1", "2">>,
     <<"P", "h", "o", "n", "e", ":", " ", "9", "3", "6", "-", "5", "5", "5", "-", "3", "4", "3", "4">>,
     <<"(", "9", "3", "6", ")", " ", "5", "5", "5", "-", "3", "4", "3", "4">>,
     <<"9", "3", "6", ".", "5", "5", "5", ".", "3", "4", "3", "4">>,
     <<"O", "f", "f", "i", "c", "e", " ", "9", "3", "6", "5", "5", "5", "3", "4", "3", "4">>,
     <<"c", "a", "l", "l", " ", "9", "3", "6", "5", "5", "5", "3", "4", "3", "4">>,
     <<>>}

ContactTexts ==
    {Join(ls) : ls \in UNION {[1..n -> ContactLines] : n \in 1..MaxContactLines}}

InitPhone ==
    /\ InitCalendarIdle
    /\ InitRecordsIdle
    /\ contact_info \in ContactTexts
    /\ phone = <<>>
    /\ address = <<>>
    /\ location_category = "Other"
    /\ providers_text = <<>>
    /\ provider_names = <<>>
    /\ parse_pc = "input"
    /\ InitFaxIdle
    /\ InitDb
    /\ InitImportIdle

\* import_excel: phone = parse_phone_number(contact_str)
ParsePhone ==
    /\ parse_pc = "input"
    /\ phone' = parse_phone_number(contact_info)
    /\ parse_pc' = "parsed"
    /\ UNCHANGED <<contact_info, address, location_category, providers_text,
                   provider_names>>
    /\ UNCHANGED <<faxVars, dbVars, importVars, calendarVars, recordVars>>

NextPhone == ParsePhone

SpecPhone == InitPhone /\ [][NextPhone]_vars

(***************************************************************************)
(* Claims about parse_phone_number, checked under SpecPhone.               *)
(***************************************************************************)
\* every number some phone pattern finds on the line, at any position
NumbersOn(line) ==
    {FormatGroups(m.groups) :
       m \in UNION {MatchesAt(pat, line, i) :
                      pat \in {PhonePattern1, PhonePattern2, PhonePattern3},
                      i \in 1..(Len(line) + 1)}}

FaxLinesOf(text) == {l \in Range(Split(text)) : IsFaxLine(l)}

OtherLinesOf(text) == {l \in Range(Split(text)) : ~IsFaxLine(l)}

\* C12: parse_phone_number never returns a number that occurs only on a
\* line containing "fax" (in any case); when every line of the text
\* contains "fax" the result is empty.
C12_PhoneNeverFromFaxLine ==
    parse_pc = "parsed" =>
        /\ phone # <<>> =>
             \/ \E l \in OtherLinesOf(contact_info) : phone \in NumbersOn(l)
             \/ \A l \in FaxLinesOf(contact_info) : phone \notin NumbersOn(l)
        /\ OtherLinesOf(contact_info) = {} => phone = <<>>

(***************************************************************************)
(* utils.py: categorize_location.                                          *)
(***************************************************************************)
\* \w of the regular expressions, as far as addresses go
WordChars == Digits \cup Range(LowerLetters) \cup Range(UpperLetters) \cup {"_"}

\* re.findall(r'\b(\d{5})\b', address): the five-digit runs that stand
\* between word boundaries, in the order they occur
FiveDigitRuns(text) ==
    LET IsRun(i) ==
            /\ i + 4 <= Len(text)
            /\ \A k \in i..(i + 4) : IsDigit(text[k])
            /\ i = 1 \/ text[i - 1] \notin WordChars
            /\ i + 5 > Len(text) \/ text[i + 5] \notin WordChars
        from[i \in 1..(Len(text) + 1)] ==
            IF i > Len(text) THEN <<>>
            ELSE IF IsRun(i) THEN <<SubSeq(text, i, i + 4)>>
                                    \o from[Min(i + 5, Len(text) + 1)]
            ELSE from[i + 1]
    IN  from[1]

\* for z in zips: the first zip found in either list decides, the
\* Huntsville list asked first
categorize_by_zip(zips) ==
    LET from[n \in 1..(Len(zips) + 1)] ==
            IF n > Len(zips) THEN "Other"
            ELSE IF zips[n] \in huntsville_zips THEN "Huntsville"
            ELSE IF zips[n] \in woodlands_zips THEN "Woodlands"
            ELSE from[n + 1]
    IN  from[1]

\* the same function with the zip lists asked before the keywords
categorize_location_zips_first(addr) ==
    LET address_upper == Upper(addr)
        by_zip == categorize_by_zip(FiveDigitRuns(addr))
    IN  IF addr = <<>> THEN "Other"
        ELSE IF by_zip # "Other" THEN by_zip
        ELSE IF Contains(address_upper, <<"H", "U", "N", "T", "S", "V", "I", "L", "L", "E">>) THEN "Huntsville"
        ELSE IF Contains(address_upper, <<"W", "O", "O", "D", "L", "A", "N", "D", "S">>) THEN "Woodlands"
        ELSE "Other"

categorize_location(addr) ==
    LET address_upper == Upper(addr)
    IN  IF addr = <<>> THEN "Other"
        ELSE IF Contains(address_upper, <<"H", "U", "N", "T", "S", "V", "I", "L", "L", "E">>) THEN "Huntsville"
        ELSE IF \/ Contains(address_upper, <<"W", "O", "O", "D", "L", "A", "N", "D", "S">>)
                \/ Contains(address_upper, <<"T", "H", "E", " ", "W", "O", "O", "D", "L", "A", "N", "D", "S">>)
             THEN "Woodlands"
        ELSE IF \/ Contains(address_upper, <<"C", "O", "N", "R", "O", "E">>)
                \/ Contains(address_upper, <<"W", "I", "L", "L", "I", "S">>)
                \/ Contains(address_upper, <<"M", "A", "G", "N", "O", "L", "I", "A">>)
             THEN "Woodlands"
        ELSE IF \/ Contains(address_upper, <<"S", "P", "R", "I", "N", "G">>)
                \/ Contains(address_upper, <<"T", "O", "M", "B", "A", "L", "L">>)
             THEN "Woodlands"
        ELSE IF \/ Contains(address_upper, <<"M", "A", "D", "I", "S", "O", "N", "V", "I", "L", "L", "E">>)
                \/ Contains(address_upper, <<"A", "N", "D", "E", "R", "S", "O", "N">>)
                \/ Contains(address_upper, <<"C", "R", "O", "C", "K", "E", "T", "T">>)
             THEN "Huntsville"
        ELSE IF \/ Contains(address_upper, <<"T", "R", "I", "N", "I", "T", "Y">>)
                \/ Contains(address_upper, <<"C", "E", "N", "T", "E", "R", "V", "I", "L", "L", "E">>)
                \/ Contains(address_upper, <<"L", "I", "V", "I", "N", "G", "S", "T", "O", "N">>)
             THEN "Huntsville"
        ELSE categorize_by_zip(FiveDigitRuns(addr))

(***************************************************************************)
(* The addresses handed to categorize_location: up to MaxAddressParts      *)
(* words, and the zip lists of the configuration.                          *)
(***************************************************************************)
MaxAddressParts == 3

AddressParts ==
    {<<"H", "u", "n", "t", "s", "v", "i", "l", "l", "e">>, <<"T", "h", "e", " ", "W", "o", "o", "d", "l", "a", "n", "d", "s">>, <<"C", "o", "n", "r", "o", "e">>, <<"S", "p", "r", "i", "n", "g", "f", "i", "e", "l", "d">>,
     <<"M", "a", "d", "i", "s", "o", "n", "v", "i", "l", "l", "e">>, <<"t", "r", "i", "n", "i", "t", "y">>, <<"A", "u", "s", "t", "i", "n">>, <<"7", "7", "3", "4", "0">>, <<"7", "7", "3", "8", "0">>,
     <<"7", "7", "3", "4", "0", "1">>}

\* " ".join(parts)
RECURSIVE Spaced(_)
Spaced(parts) ==
    IF parts = <<>> THEN <<>>
    ELSE IF Len(parts) = 1 THEN parts[1]
    ELSE parts[1] \o <<" ">> \o Spaced(Tail(parts))

AddressInputs ==
    {Spaced(ps) :
       ps \in UNION {[1..n -> AddressParts] : n \in 0..MaxAddressParts}}

\* config["huntsville_zips"], config["woodlands_zips"]: the default (both
\* empty), disjoint lists, and lists that share a zip
ZipListInputs ==
    {[huntsville |-> {}, woodlands |-> {}],
     [huntsville |-> {<<"7", "7", "3", "4", "0">>}, woodlands |-> {<<"7", "7", "3", "8", "0">>}],
     [huntsville |-> {<<"7", "7", "3", "8", "0">>}, woodlands |-> {<<"7", "7", "3", "4", "0">>, <<"7", "7", "3", "8", "0">>}]}

InitLocation ==
    /\ InitCalendarIdle
    /\ InitRecordsIdle
    /\ address \in AddressInputs
    /\ \E z \in ZipListInputs :
          /\ huntsville_zips = z.huntsville
          /\ woodlands_zips = z.woodlands
    /\ location_category = "Other"
    /\ contact_info = <<>>
    /\ phone = <<>>
    /\ providers_text = <<>>
    /\ provider_names = <<>>
    /\ parse_pc = "input"
    /\ now = [day |-> 0, tod |-> 0]
    /\ practices = InitialPractices
    /\ contact_log = EmptyBag
    /\ lunch_tracking = EmptyBag
    /\ cookie_visits = EmptyBag
    /\ thank_you_letters = EmptyBag
    /\ reminder_days = DefaultLunchFollowup
    /\ providers = {}
    /\ InitFaxIdle
    /\ InitImportIdle

\* import_excel, the add and the edit form: categorize_location(address)
Categorize ==
    /\ parse_pc = "input"
    /\ location_category' = categorize_location(address)
    /\ parse_pc' = "parsed"
    /\ UNCHANGED <<contact_info, phone, address, providers_text,
                   provider_names>>
    /\ UNCHANGED <<faxVars, dbVars, importVars, calendarVars, recordVars>>

NextLocation == Categorize

SpecLocation == InitLocation /\ [][NextLocation]_vars

(***************************************************************************)
(* Claims about categorize_location, checked under SpecLocation.           *)
(***************************************************************************)
\* the keyword table in its priority order
KeywordRules ==
    <<[keyword |-> <<"H", "U", "N", "T", "S", "V", "I", "L", "L", "E">>, category |-> "Huntsville"],
      [keyword |-> <<"W", "O", "O", "D", "L", "A", "N", "D", "S">>, category |-> "Woodlands"],
      [keyword |-> <<"C", "O", "N", "R", "O", "E">>, category |-> "Woodlands"],
      [keyword |-> <<"W", "I", "L", "L", "I", "S">>, category |-> "Woodlands"],
      [keyword |-> <<"M", "A", "G", "N", "O", "L", "I", "A">>, category |-> "Woodlands"],
      [keyword |-> <<"S", "P", "R", "I", "N", "G">>, category |-> "Woodlands"],
      [keyword |-> <<"T", "O", "M", "B", "A", "L", "L">>, category |-> "Woodlands"],
      [keyword |-> <<"M", "A", "D", "I", "S", "O", "N", "V", "I", "L", "L", "E">>, category |-> "Huntsville"],
      [keyword |-> <<"A", "N", "D", "E", "R", "S", "O", "N">>, category |-> "Huntsville"],
      [keyword |-> <<"C", "R", "O", "C", "K", "E", "T", "T">>, category |-> "Huntsville"],
      [keyword |-> <<"T", "R", "I", "N", "I", "T", "Y">>, category |-> "Huntsville"],
      [keyword |-> <<"C", "E", "N", "T", "E", "R", "V", "I", "L", "L", "E">>, category |-> "Huntsville"],
      [keyword |-> <<"L", "I", "V", "I", "N", "G", "S", "T", "O", "N">>, category |-> "Huntsville"]>>

\* the rules whose keyword occurs in the address, whatever the case
MatchingRules(addr) ==
    {n \in DOMAIN KeywordRules :
       \E i \in 1..Len(addr) :
          /\ i + Len(KeywordRules[n].keyword) - 1 <= Len(addr)
          /\ \A k \in 1..Len(KeywordRules[n].keyword) :
                UpperChar(addr[i + k - 1]) = KeywordRules[n].keyword[k]}

\* the positions of the five-digit words of the address found in a zip list
ListedZipPositions(addr) ==
    {i \in 1..(Len(addr) - 4) :
       /\ \A k \in i..(i + 4) : addr[k] \in Digits
       /\ i > 1 => addr[i - 1] \notin WordChars
       /\ i + 5 <= Len(addr) => addr[i + 5] \notin WordChars
       /\ SubSeq(addr, i, i + 4) \in huntsville_zips \cup woodlands_zips}

ClaimedCategory(addr) ==
    IF MatchingRules(addr) # {}
    THEN KeywordRules[CHOOSE n \in MatchingRules(addr) :
                        \A m \in MatchingRules(addr) : n <= m].category
    ELSE IF ListedZipPositions(addr) # {}
    THEN LET first == CHOOSE i \in ListedZipPositions(addr) :
                         \A j \in ListedZipPositions(addr) : i <= j
         IN  IF SubSeq(addr, first, first + 4) \in huntsville_zips
             THEN "Huntsville" ELSE "Woodlands"
    ELSE "Other"

\* C13: categorize_location applies its rules in fixed priority, the first
\* match wins: HUNTSVILLE, WOODLANDS, the secondary Woodlands towns, the
\* secondary Huntsville towns, and only without a keyword the zip lists
\* (Huntsville list first), else Other; a keyword overrides every zip and
\* an address with both HUNTSVILLE and WOODLANDS is Huntsville.
C13_LocationPriority ==
    parse_pc = "parsed" =>
        /\ location_category = ClaimedCategory(address)
        /\ 1 \in MatchingRules(address) => location_category = "Huntsville"

\* an address with both city names, and one whose keyword and zip disagree
C13_Witness ==
    /\ parse_pc = "parsed"
    /\ {1, 2} \subseteq MatchingRules(address)
    /\ location_category = "Huntsville"
    /\ ListedZipPositions(address) # {}
    /\ SubSeq(address, CHOOSE i \in ListedZipPositions(address) : TRUE,
              4 + CHOOSE i \in ListedZipPositions(address) : TRUE)
         \in woodlands_zips \ huntsville_zips

(***************************************************************************)
(* data_import.py: parse_providers.                                        *)
(***************************************************************************)
\* ^[A-Z]+['’]?s?\s*:?\s*$ (the typographic apostrophe is left out: no
\* cell of the model holds one)
CategoryHeader ==
    <<One(Range(UpperLetters)), Star(Range(UpperLetters)), Opt({"'"}),
      Opt({"s"}), Star(Whitespace), Opt({":"}), Star(Whitespace)>>

\* ^\d+[\.\)]\s*
NumberedPrefix ==
    <<One(Digits), Star(Digits), One({".", ")"}), Star(Whitespace)>>

\* ^N-
RolePrefix == Lit(<<"N", "-">>)

\* re.match(pattern + "$", line)
FullMatch(pat, line) ==
    \E m \in MatchFrom(pat, 1, line, 1, <<>>) : m.end = Len(line) + 1

\* re.sub("^" + pattern, "", line): every quantifier is greedy and no two
\* neighbouring classes overlap, so the match taken is the longest one
RemovePrefix(pat, line) ==
    LET ends == {m.end : m \in MatchFrom(pat, 1, line, 1, <<>>)}
    IN  IF ends = {} THEN line
        ELSE SubSeq(line, CHOOSE e \in ends : \A f \in ends : f <= e,
                    Len(line))

\* the loop of parse_providers with the header test left out
parse_providers_keep_headers(text) ==
    LET lines == Split(Strip(text))
        upto[n \in 0..Len(lines)] ==
            IF n = 0 THEN <<>>
            ELSE LET line == Strip(lines[n])
                     rest == RemovePrefix(RolePrefix,
                                          RemovePrefix(NumberedPrefix, line))
                 IN  IF line = <<>> THEN upto[n - 1]
                     ELSE IF Len(rest) > 1
                          THEN Append(upto[n - 1], Strip(rest))
                     ELSE upto[n - 1]
    IN  IF text = <<>> THEN <<>> ELSE upto[Len(lines)]

parse_providers(text) ==
    LET lines == Split(Strip(text))
        upto[n \in 0..Len(lines)] ==
            IF n = 0 THEN <<>>
            ELSE LET line == Strip(lines[n])
                     rest == RemovePrefix(RolePrefix,
                                          RemovePrefix(NumberedPrefix, line))
                 IN  IF line = <<>> THEN upto[n - 1]
                     ELSE IF FullMatch(CategoryHeader, line) THEN upto[n - 1]
                     ELSE IF rest # <<>> /\ Len(rest) > 1
                          THEN Append(upto[n - 1], Strip(rest))
                     ELSE upto[n - 1]
    IN  IF text = <<>> THEN <<>> ELSE upto[Len(lines)]

(***************************************************************************)
(* The Providers cell handed to parse_providers: up to MaxProviderLines    *)
(* lines.                                                                  *)
(***************************************************************************)
MaxProviderLines == 3

ProviderLines ==
    {<<"P", "A", "'", "s", ":">>, <<"N", "P", "s", " ", ":">>, <<"M", "D">>, <<"1", ".", " ", "J", "a", "n", "e", " ", "D", "o", "e">>, <<"2", ")", " ", "A", "l">>,
     <<"N", "-", "J", "o", "h", "n", " ", "S", "m", "i", "t", "h">>, <<"1", "2", ".", "N", "-", " ", "B", "o", " ">>, <<"3", ".", " ", "J">>, <<"N", "-", " ", "J">>, <<" ", "D", "r", " ", "R", "a", "y">>, <<>>}

ProviderTexts ==
    {Join(ls) :
       ls \in UNION {[1..n -> ProviderLines] : n \in 1..MaxProviderLines}}

InitProviders ==
    /\ InitCalendarIdle
    /\ InitRecordsIdle
    /\ providers_text \in ProviderTexts
    /\ provider_names = <<>>
    /\ contact_info = <<>>
    /\ phone = <<>>
    /\ address = <<>>
    /\ location_category = "Other"
    /\ parse_pc = "input"
    /\ InitFaxIdle
    /\ InitDb
    /\ InitImportIdle

\* import_excel: provider_names = parse_providers(str(providers_text))
ParseProviders ==
    /\ parse_pc = "input"
    /\ provider_names' = parse_providers(providers_text)
    /\ parse_pc' = "parsed"
    /\ UNCHANGED <<contact_info, phone, address, location_category,
                   providers_text>>
    /\ UNCHANGED <<faxVars, dbVars, importVars, calendarVars, recordVars>>

NextProviders == ParseProviders

SpecProviders == InitProviders /\ [][NextProviders]_vars

(***************************************************************************)
(* Claims about parse_providers, checked under SpecProviders.              *)
(***************************************************************************)
\* the number of leading characters of the line that lie in the class
LeadingRun(line, cls) ==
    CHOOSE k \in 0..Len(line) :
        /\ \A i \in 1..k : line[i] \in cls
        /\ k < Len(line) => line[k + 1] \notin cls

DropOne(line, cls) ==
    IF line # <<>> /\ line[1] \in cls THEN Tail(line) ELSE line

\* capitals, then at most an apostrophe, an s, blanks, a colon, blanks
IsCategoryHeaderLine(line) ==
    LET k == LeadingRun(line, Range(UpperLetters))
        after == SubSeq(line, k + 1, Len(line))
    IN  /\ k >= 1
        /\ LStrip(DropOne(LStrip(DropOne(DropOne(after, {"'"}), {"s"})),
                          {":"})) = <<>>

\* "1. " and "2) ": digits, a dot or a closing parenthesis, blanks
WithoutNumbering(line) ==
    LET k == LeadingRun(line, Digits)
    IN  IF k >= 1 /\ k < Len(line) /\ line[k + 1] \in {".", ")"}
        THEN LStrip(SubSeq(line, k + 2, Len(line)))
        ELSE line

WithoutRolePrefix(line) ==
    IF Len(line) >= 2 /\ line[1] = "N" /\ line[2] = "-"
    THEN SubSeq(line, 3, Len(line))
    ELSE line

NameOnLine(line) == WithoutRolePrefix(WithoutNumbering(Strip(line)))

IsNameLine(line) ==
    /\ Strip(line) # <<>>
    /\ ~IsCategoryHeaderLine(Strip(line))
    /\ Len(NameOnLine(line)) > 1

ClaimedProviderNames(text) ==
    LET lines == Split(Strip(text))
        kept == {n \in 1..Len(lines) : IsNameLine(lines[n])}
        Nth(j) == CHOOSE n \in kept : Cardinality({m \in kept : m <= n}) = j
    IN  [j \in 1..Cardinality(kept) |-> Strip(NameOnLine(lines[Nth(j)]))]

ExampleProvidersCell == <<"P", "A", "'", "s", ":", "\n", "1", ".", " ", "J", "a", "n", "e", " ", "D", "o", "e", "\n", "N", "-", "J", "o", "h", "n", " ", "S", "m", "i", "t", "h">>

BranchSuffix == <<" ", "(", "B", "r", "a", "n", "c", "h", ")">>

\* extract_zip and the forms' zip_match: the first five-digit word
extract_zip(addr) ==
    IF FiveDigitRuns(addr) = <<>> THEN <<>> ELSE FiveDigitRuns(addr)[1]

\* not practice_name and not address and not contact_info and not
\* providers_text (an empty cell is the empty text)
AllBlank(row) ==
    /\ row.practice_name = <<>>
    /\ row.address = <<>>
    /\ row.contact_info = <<>>
    /\ row.providers_text = <<>>

\* the rows that only a blank sheet line skips
row_is_skipped_only_if_blank(row, current) == AllBlank(row)

\* the two `continue` of the loop
row_is_skipped(row, current) ==
    \/ AllBlank(row)
    \/ row.practice_name = <<>> /\ current = <<>>

\* the name a processed row is stored under
row_practice_name(row, current) ==
    IF row.practice_name = <<>> THEN current \o BranchSuffix
    ELSE row.practice_name

\* current_practice_name taking over the synthesized branch name
next_current_name_branch(row, current) ==
    row_practice_name(row, current)

\* current_practice_name after a processed row
next_current_name(row, current) ==
    IF row.practice_name = <<>> THEN current ELSE row.practice_name

\* practice_data of a processed row
imported_practice(row, current) ==
    LET fax == parse_fax_number(row.contact_info)
    IN  [name |-> Strip(row_practice_name(row, current)),
         address |-> Strip(row.address),
         zip_code |-> extract_zip(row.address),
         location_category |-> categorize_location(row.address),
         phone |-> parse_phone_number(row.contact_info),
         fax |-> fax,
         fax_vonage_email |-> IF fax # <<>>
                              THEN convert_fax_to_vonage_email(fax)
                              ELSE <<>>,
         status |-> "Active"]

\* add_provider for every parsed name, ids in the order of insertion
imported_providers(row, practice_id) ==
    LET names == parse_providers(row.providers_text)
    IN  {[id |-> Cardinality(providers) + k, name |-> names[k],
          practice_id |-> practice_id, status |-> "Active"] :
           k \in 1..Len(names)}

\* the post-import pass: a practice with a fax and no fax email gets one
fixup_needed(practice) ==
    /\ practice.fax # <<>>
    /\ practice.fax_vonage_email = <<>>
    /\ convert_fax_to_vonage_email(practice.fax) # <<>>

\* the forms' record with the category of the old address kept
practice_update_stale_category(practice, new_address, new_fax) ==
    [practice EXCEPT
       !.address = new_address,
       !.zip_code = extract_zip(new_address),
       !.fax = new_fax,
       !.fax_vonage_email =
           IF new_fax # <<>>
           THEN fax_to_vonage_email(new_fax, VonageDomain)
           ELSE <<>>]

\* the stale email kept when the fax field is cleared
practice_update_keep_email(practice, new_address, new_fax) ==
    [practice EXCEPT
       !.address = new_address,
       !.zip_code = extract_zip(new_address),
       !.location_category = categorize_location(new_address),
       !.fax = new_fax,
       !.fax_vonage_email =
           IF new_fax # <<>>
           THEN fax_to_vonage_email(new_fax, VonageDomain)
           ELSE practice.fax_vonage_email]

\* _show_edit_form: what update_practice writes for the Address and the
\* Fax field (the other fields are written back as shown)
practice_update(practice, new_address, new_fax) ==
    [practice EXCEPT
       !.address = new_address,
       !.zip_code = extract_zip(new_address),
       !.location_category = categorize_location(new_address),
       !.fax = new_fax,
       !.fax_vonage_email =
           IF new_fax # <<>>
           THEN fax_to_vonage_email(new_fax, VonageDomain)
           ELSE <<>>]

(***************************************************************************)
(* The sheet: up to MaxSheetRows data rows.                                *)
(***************************************************************************)
MaxSheetRows == 3

MaxFormSheetRows == 1

MaxPractices == 2

NamedRow ==
    [practice_name |-> <<"A", "B", "C", " ", "C", "l", "i", "n", "i", "c">>,
     address |-> <<"1", " ", "M", "a", "i", "n", " ", "S", "t", " ", "H", "u", "n", "t", "s", "v", "i", "l", "l", "e", " ", "7", "7", "3", "4", "0">>,
     contact_info |-> <<"P", "h", "o", "n", "e", ":", " ", "9", "3", "6", "-", "5", "5", "5", "-", "3", "4", "3", "4", "\n", "F", "a", "x", ":", " ", "9", "3", "6", "-", "5", "5", "5", "-", "1", "2", "1", "2">>,
     providers_text |-> <<"P", "A", "'", "s", ":", "\n", "1", ".", " ", "J", "a", "n", "e", " ", "D", "o", "e", "\n", "N", "-", "J", "o", "h", "n", " ", "S", "m", "i", "t", "h">>,
     last_contact |-> NoDate]

OtherNamedRow ==
    [practice_name |-> <<"O", "a", "k", " ", "M", "D">>,
     address |-> <<"C", "o", "n", "r", "o", "e", " ", "7", "7", "3", "4", "0">>,
     contact_info |-> <<"F", "a", "x", ":", " ", "9", "3", "6", "-", "5", "5", "5", "-", "1", "2", "1", "2">>,
     providers_text |-> <<>>,
     last_contact |-> DateTimeT(-10, 0)]

BranchRow ==
    [practice_name |-> <<>>,
     address |-> <<"9", " ", "O", "a", "k", " ", "R", "d", " ", "7", "7", "3", "8", "0">>,
     contact_info |-> <<>>,
     providers_text |-> <<>>,
     last_contact |-> NoDate]

ProvidersOnlyRow ==
    [practice_name |-> <<>>,
     address |-> <<>>,
     contact_info |-> <<>>,
     providers_text |-> <<"D", "r", " ", "R", "a", "y">>,
     last_contact |-> NoDate]

BlankRow ==
    [practice_name |-> <<>>,
     address |-> <<>>,
     contact_info |-> <<>>,
     providers_text |-> <<>>,
     last_contact |-> DateText(-5)]

SheetRows == {NamedRow, OtherNamedRow, BranchRow, ProvidersOnlyRow, BlankRow}

Sheets(rows) == UNION {[1..n -> SheetRows] : n \in 0..rows}

\* the Address field of the add and the edit form
FormAddressInputs == {<<"T", "h", "e", " ", "W", "o", "o", "d", "l", "a", "n", "d", "s">>, <<"7", "7", "3", "8", "0">>, <<>>}

InitSheet(rows) ==
    /\ InitCalendarIdle
    /\ InitRecordsIdle
    /\ sheet \in Sheets(rows)
    /\ import_row = 0
    /\ current_practice_name = <<>>
    /\ stats = InitialStats
    /\ import_pc = "idle"
    /\ fix_result = NoFixResult
    /\ now = [day |-> 0, tod |-> 0]
    /\ practices = <<>>
    /\ contact_log = EmptyBag
    /\ lunch_tracking = EmptyBag
    /\ cookie_visits = EmptyBag
    /\ thank_you_letters = EmptyBag
    /\ reminder_days = DefaultLunchFollowup
    /\ providers = {}
    /\ huntsville_zips = {<<"7", "7", "3", "4", "0">>}
    /\ woodlands_zips = {<<"7", "7", "3", "8", "0">>}
    /\ InitFaxIdle
    /\ InitParseIdle

\* import_excel up to the loop
ImportBegin ==
    /\ import_pc = "idle"
    /\ import_pc' = "rows"
    /\ import_row' = 0
    /\ current_practice_name' = <<>>
    /\ stats' = InitialStats
    /\ UNCHANGED <<sheet, fix_result>>
    /\ UNCHANGED <<faxVars, dbVars, parseVars, calendarVars, recordVars>>

\* one turn of `for row in range(2, ws.max_row + 1)`
ImportRow ==
    /\ import_pc = "rows"
    /\ import_row < Len(sheet)
    /\ import_row' = import_row + 1
    /\ LET row == sheet[import_row + 1]
           practice_id == Len(practices) + 1
           practice == imported_practice(row, current_practice_name)
           added == imported_providers(row, practice_id)
       IN  IF row_is_skipped(row, current_practice_name)
           THEN /\ stats' = [stats EXCEPT !.skipped_rows = @ + 1]
                /\ UNCHANGED <<current_practice_name, practices, providers,
                               contact_log>>
           ELSE /\ current_practice_name' =
                       next_current_name(row, current_practice_name)
                /\ practices' = Append(practices, practice)
                /\ providers' = providers \cup added
                /\ contact_log' =
                       IF row.last_contact # NoDate
                       THEN contact_log (+) SetToBag(
                                {[practice_id |-> practice_id,
                                  contact_type |-> "Other",
                                  contact_date |-> row.last_contact]})
                       ELSE contact_log
                /\ stats' = [stats EXCEPT
                       !.rows_processed = @ + 1,
                       !.fax_numbers_found =
                           IF practice.fax # <<>> THEN @ + 1 ELSE @,
                       !.practices_imported = @ + 1,
                       !.providers_imported = @ + Cardinality(added)]
    /\ UNCHANGED <<sheet, import_pc, fix_result>>
    /\ UNCHANGED <<now, lunch_tracking, cookie_visits, thank_you_letters,
                   reminder_days, huntsville_zips, woodlands_zips>>
    /\ UNCHANGED <<faxVars, parseVars, calendarVars, recordVars>>

\* the post-import fixup and the return
ImportFinish ==
    /\ import_pc = "rows"
    /\ import_row = Len(sheet)
    /\ import_pc' = "done"
    /\ practices' =
           [p \in DOMAIN practices |->
              IF fixup_needed(practices[p])
              THEN [practices[p] EXCEPT !.fax_vonage_email =
                        convert_fax_to_vonage_email(practices[p].fax)]
              ELSE practices[p]]
    /\ LET fixed == Cardinality({p \in DOMAIN practices :
                                   fixup_needed(practices[p])})
       IN  stats' = IF fixed > 0
                    THEN stats @@ [vonage_emails_fixed |-> fixed]
                    ELSE stats
    /\ UNCHANGED <<sheet, import_row, current_practice_name, fix_result>>
    /\ UNCHANGED <<now, contact_log, lunch_tracking, cookie_visits,
                   thank_you_letters, reminder_days, providers,
                   huntsville_zips, woodlands_zips>>
    /\ UNCHANGED <<faxVars, parseVars, calendarVars, recordVars>>

\* the Fax field of the add and the edit form
FormFaxInputs == {<<"(", "9", "3", "6", ")", " ", "5", "5", "5", "-", "3", "4", "3", "4">>,
                  <<"5", "5", "5", "-", "1", "2", "1", "2">>, <<>>}

\* the Add New tab: add_practice with the form's fields
AddPractice ==
    \E new_address \in FormAddressInputs, new_fax \in FormFaxInputs :
        /\ import_pc = "done"
        /\ Len(practices) < MaxPractices
        /\ practices' = Append(practices,
               [name |-> <<"N", "e", "w">>,
                address |-> new_address,
                zip_code |-> extract_zip(new_address),
                location_category |-> categorize_location(new_address),
                phone |-> <<>>,
                fax |-> new_fax,
                fax_vonage_email |->
                    IF new_fax # <<>>
                    THEN fax_to_vonage_email(new_fax, VonageDomain)
                    ELSE <<>>,
                status |-> "Active"])
        /\ UNCHANGED <<now, contact_log, lunch_tracking, cookie_visits,
                       thank_you_letters, reminder_days, providers,
                       huntsville_zips, woodlands_zips>>
        /\ UNCHANGED <<faxVars, parseVars, importVars, calendarVars, recordVars>>

\* _show_edit_form: Save Changes with a new address
EditPractice ==
    \E p \in DOMAIN practices, new_address \in FormAddressInputs :
        /\ import_pc = "done"
        /\ practices' = [practices EXCEPT
                           ![p] = practice_update(practices[p], new_address,
                                                 practices[p].fax)]
        /\ UNCHANGED <<now, contact_log, lunch_tracking, cookie_visits,
                       thank_you_letters, reminder_days, providers,
                       huntsville_zips, woodlands_zips>>
        /\ UNCHANGED <<faxVars, parseVars, importVars, calendarVars, recordVars>>

\* an archive button that deletes the row instead
ArchivePractice_deleting ==
    /\ import_pc = "done"
    /\ practices # <<>>
    /\ practices' = SubSeq(practices, 1, Len(practices) - 1)
    /\ UNCHANGED <<now, contact_log, lunch_tracking, cookie_visits,
                   thank_you_letters, reminder_days, providers,
                   huntsville_zips, woodlands_zips>>
    /\ UNCHANGED <<faxVars, parseVars, importVars, calendarVars, recordVars>>

\* the Archive / Reactivate button
ArchivePractice ==
    \E p \in DOMAIN practices :
        /\ import_pc = "done"
        /\ practices' = [practices EXCEPT
                           ![p].status = IF practices[p].status = "Active"
                                         THEN "Inactive" ELSE "Active"]
        /\ UNCHANGED <<now, contact_log, lunch_tracking, cookie_visits,
                       thank_you_letters, reminder_days, providers,
                       huntsville_zips, woodlands_zips>>
        /\ UNCHANGED <<faxVars, parseVars, importVars, calendarVars, recordVars>>

InitImport == InitSheet(MaxSheetRows)

NextImport ==
    \/ ImportBegin
    \/ ImportRow
    \/ ImportFinish

SpecImport == InitImport /\ [][NextImport]_vars

InitPractices == InitSheet(MaxFormSheetRows)

NextPractices ==
    \/ ImportBegin
    \/ ImportRow
    \/ ImportFinish
    \/ AddPractice
    \/ EditPractice
    \/ ArchivePractice

SpecPractices == InitPractices /\ [][NextPractices]_vars

(***************************************************************************)
(* Claims about the import and the practice forms.                         *)
(***************************************************************************)
\* the rows the partition rule sets aside
ClaimedSkipped(i) ==
    \/ AllBlank(sheet[i])
    \/ /\ sheet[i].practice_name = <<>>
       /\ \A j \in 1..(i - 1) : sheet[j].practice_name = <<>>

\* the rows read so far that the rule keeps, in sheet order
ClaimedProcessed ==
    LET kept[n \in 0..import_row] ==
            IF n = 0 THEN <<>>
            ELSE IF ClaimedSkipped(n) THEN kept[n - 1]
                 ELSE Append(kept[n - 1], n)
    IN  kept[import_row]

\* the name of the most recent row up to i that had a non-blank name
LastNamed(i) ==
    LET named == {j \in 1..i : sheet[j].practice_name # <<>>}
        last == CHOOSE j \in named : \A k \in named : k <= j
    IN  sheet[last].practice_name

\* C15: every processed row has a practice of its own, in sheet order, and
\* the practice of a processed row with a blank name is named after the most
\* recent named row followed by " (Branch)", the suffix appearing once.
C15_BranchRows ==
    /\ Len(practices) = Len(ClaimedProcessed)
    /\ \A k \in 1..Len(ClaimedProcessed) :
         LET i == ClaimedProcessed[k]
         IN  sheet[i].practice_name = <<>> =>
                 practices[k].name = LastNamed(i) \o BranchSuffix

\* two consecutive branch rows after "ABC Clinic" stored as two siblings
C15_Witness ==
    /\ import_pc = "done"
    /\ Len(practices) = 3
    /\ practices[1].name = <<"A", "B", "C", " ", "C", "l", "i", "n", "i", "c">>
    /\ practices[2].name = <<"A", "B", "C", " ", "C", "l", "i", "n", "i", "c", " ", "(", "B", "r", "a", "n", "c", "h", ")">>
    /\ practices[3].name = <<"A", "B", "C", " ", "C", "l", "i", "n", "i", "c", " ", "(", "B", "r", "a", "n", "c", "h", ")">>
    /\ practices[2].address # practices[3].address

\* C16: the rows read so far are partitioned: the skipped ones are exactly
\* those the rule sets aside, each other row is counted as processed and
\* made one practice; at return the counters add up to the number of data
\* rows, practices_imported = rows_processed and fax_numbers_found is at
\* most practices_imported.
C16_ImportPartition ==
    LET skipped == {i \in 1..import_row : ClaimedSkipped(i)}
    IN  /\ stats.skipped_rows = Cardinality(skipped)
        /\ stats.rows_processed = import_row - Cardinality(skipped)
        /\ Len(practices) = stats.rows_processed
        /\ import_pc = "done" =>
             /\ stats.rows_processed + stats.skipped_rows = Len(sheet)
             /\ stats.practices_imported = stats.rows_processed
             /\ stats.fax_numbers_found <= stats.practices_imported

\* a finished import that skipped a nameless row with data, skipped a blank
\* row and processed the others
C16_Witness ==
    /\ import_pc = "done"
    /\ Len(sheet) = 3
    /\ sheet[1] = ProvidersOnlyRow
    /\ sheet[2] = NamedRow
    /\ sheet[3] = BlankRow
    /\ stats.skipped_rows = 2
    /\ stats.rows_processed = 1
    /\ stats.fax_numbers_found = 1

LocationCategories == {"Huntsville", "Woodlands", "Other"}

\* C14: every stored practice has one of the three location categories, and
\* every step that stores a practice with a new address stores with it the
\* category categorize_location gives for that address.
C14_LocationCategory ==
    /\ [](\A p \in DOMAIN practices :
            practices[p].location_category \in LocationCategories)
    /\ [][\A p \in DOMAIN practices' :
            (p \notin DOMAIN practices
               \/ practices'[p].address # practices[p].address) =>
              practices'[p].location_category =
                  categorize_location(practices'[p].address)]_vars

\* an imported Huntsville practice, archived, whose address was edited to a
\* Woodlands zip code
C14_Witness ==
    \E p \in DOMAIN practices :
        /\ practices[p].name = <<"A", "B", "C", " ", "C", "l", "i", "n", "i", "c">>
        /\ practices[p].address = <<"7", "7", "3", "8", "0">>
        /\ practices[p].location_category = "Woodlands"
        /\ practices[p].status = "Inactive"

(***************************************************************************)
(* database.py: fix_all_vonage_emails, run from the settings page over     *)
(* practices whose fax and fax email were stored earlier.                  *)
(***************************************************************************)
MaxStoredPractices == 2

\* two faxes convert_fax_to_vonage_email accepts, one it does not, and none
StoredFaxes ==
    {<<"9", "3", "6", "-", "5", "5", "5", "-", "1", "2", "1", "2">>,
     <<"1", " ", "9", "3", "6", " ", "5", "5", "5", " ", "1", "2", "1", "2">>,
     <<"5", "5", "5", "-", "1", "2", "1", "2">>, <<>>}

\* the fax email the present code derives for the first fax, the plain-digit
\* form validate_vonage_email also accepts, and none
StoredEmails ==
    {<<"1", "(", "9", "3", "6", ")", "5", "5", "5", "1", "2", "1", "2", "@", "f", "a", "x", ".", "v", "o", "n", "a", "g", "e", "b", "u", "s", "i", "n", "e", "s", "s", ".", "c", "o", "m">>,
     <<"1", "9", "3", "6", "5", "5", "5", "1", "2", "1", "2", "@", "f", "a", "x", ".", "v", "o", "n", "a", "g", "e", "b", "u", "s", "i", "n", "e", "s", "s", ".", "c", "o", "m">>,
     <<>>}

StoredNames == <<<<"A", "s", "h">>, <<"E", "l", "m">>, <<"O", "a", "k">>, <<"Y", "e", "w">>>>

StoredPractice(p, fax, email) ==
    [name |-> StoredNames[p],
     address |-> <<>>,
     zip_code |-> <<>>,
     location_category |-> "Other",
     phone |-> <<>>,
     fax |-> fax,
     fax_vonage_email |-> email,
     status |-> "Active"]

\* a practice without a fax has no fax email
StoredFaxAndEmail ==
    {fe \in StoredFaxes \X StoredEmails : fe[1] = <<>> => fe[2] = <<>>}

StoredPracticeLists ==
    UNION {{[p \in 1..n |-> StoredPractice(p, f[p][1], f[p][2])] :
              f \in [1..n -> StoredFaxAndEmail]} :
           n \in 1..MaxStoredPractices}

\* f"{r['name']}: could not parse fax '{r['fax']}'"
ParseError(practice) ==
    practice.name \o <<":", " ", "c", "o", "u", "l", "d", " ", "n", "o", "t", " ", "p", "a", "r", "s", "e", " ", "f", "a", "x", " ", "'">> \o practice.fax \o <<"'">>

\* the rows of the SELECT
HasFax(practice) == practice.fax # <<>>

\* the first branch of the loop: a derived email that differs is stored
IsFixed(practice) ==
    /\ HasFax(practice)
    /\ convert_fax_to_vonage_email(practice.fax) # <<>>
    /\ convert_fax_to_vonage_email(practice.fax) # practice.fax_vonage_email

\* the elif branch taken whatever the stored email is
IsCleared_whatever_email(practice) ==
    /\ HasFax(practice)
    /\ convert_fax_to_vonage_email(practice.fax) = <<>>

\* the elif branch: no derived email and a stored one
IsCleared(practice) ==
    /\ HasFax(practice)
    /\ convert_fax_to_vonage_email(practice.fax) = <<>>
    /\ practice.fax_vonage_email # <<>>

InitRepair ==
    /\ InitCalendarIdle
    /\ InitRecordsIdle
    /\ practices \in StoredPracticeLists
    /\ now = [day |-> 0, tod |-> 0]
    /\ contact_log = EmptyBag
    /\ lunch_tracking = EmptyBag
    /\ cookie_visits = EmptyBag
    /\ thank_you_letters = EmptyBag
    /\ reminder_days = DefaultLunchFollowup
    /\ providers = {}
    /\ huntsville_zips = {}
    /\ woodlands_zips = {}
    /\ InitFaxIdle
    /\ InitParseIdle
    /\ InitImportIdle

\* fix_all_vonage_emails, the whole loop, and its result
FixAllVonageEmails ==
    /\ practices' =
           [p \in DOMAIN practices |->
              IF IsFixed(practices[p])
              THEN [practices[p] EXCEPT !.fax_vonage_email =
                        convert_fax_to_vonage_email(practices[p].fax)]
              ELSE IF IsCleared(practices[p])
                   THEN [practices[p] EXCEPT !.fax_vonage_email = <<>>]
                   ELSE practices[p]]
    /\ LET errors[n \in 0..Len(practices)] ==
               IF n = 0 THEN <<>>
               ELSE IF IsCleared(practices[n])
                    THEN Append(errors[n - 1], ParseError(practices[n]))
                    ELSE errors[n - 1]
           fixed == Cardinality({p \in DOMAIN practices :
                                   IsFixed(practices[p])})
       IN  fix_result' = [returned |-> TRUE, fixed |-> fixed,
                          errors |-> errors[Len(practices)]]
    /\ UNCHANGED <<sheet, import_row, current_practice_name, stats,
                   import_pc>>
    /\ UNCHANGED <<now, contact_log, lunch_tracking, cookie_visits,
                   thank_you_letters, reminder_days, providers,
                   huntsville_zips, woodlands_zips>>
    /\ UNCHANGED <<faxVars, parseVars, calendarVars, recordVars>>

\* _show_edit_form: Save Changes with a new fax; the page is drawn again
\* and the result of an earlier repair is no longer shown
EditFax ==
    \E p \in DOMAIN practices, new_fax \in FormFaxInputs :
        /\ practices' = [practices EXCEPT
                           ![p] = practice_update(practices[p],
                                                  practices[p].address,
                                                  new_fax)]
        /\ fix_result' = NoFixResult
        /\ UNCHANGED <<sheet, import_row, current_practice_name, stats,
                       import_pc>>
        /\ UNCHANGED <<now, contact_log, lunch_tracking, cookie_visits,
                       thank_you_letters, reminder_days, providers,
                       huntsville_zips, woodlands_zips>>
        /\ UNCHANGED <<faxVars, parseVars, calendarVars, recordVars>>

NextRepair ==
    \/ FixAllVonageEmails
    \/ EditFax

SpecRepair == InitRepair /\ [][NextRepair]_vars

\* C11: when the repair has returned, every stored fax email equals the
\* value derived from the stored fax, and every practice whose non-empty fax
\* cannot be normalized has an empty fax email and is listed in the errors.
C11_RepairReportsUnparsable ==
    fix_result.returned =>
        \A p \in DOMAIN practices :
            /\ practices[p].fax_vonage_email =
                   convert_fax_to_vonage_email(practices[p].fax)
            /\ (HasFax(practices[p])
                  /\ convert_fax_to_vonage_email(practices[p].fax) = <<>>) =>
                 /\ practices[p].fax_vonage_email = <<>>
                 /\ \E k \in DOMAIN fix_result.errors :
                        fix_result.errors[k] = ParseError(practices[p])

(***************************************************************************)
(* action_items.py and providers.py: the lunch workflow, the thank-you     *)
(* letters and the provider buttons.  A form is taken together with the    *)
(* button that opens it, so it acts on a lunch in a status that shows the  *)
(* button; the follow-up check box of the dialogs is left unchecked.       *)
(***************************************************************************)
\* SQL NULL in an id column (ids start at 1)
Null == 0

MaxWorkflows == 2

MaxCallAttempts == 1

MaxEvents == 2

MaxLetters == 3

\* the providers table: two providers at practice 1, one at practice 2
ProviderTables ==
    {{[id |-> 1, name |-> "Jane Doe", practice_id |-> 1,
       status |-> "Active"],
      [id |-> 2, name |-> "John Smith", practice_id |-> 1, status |-> s],
      [id |-> 3, name |-> "Ray", practice_id |-> 2, status |-> "Active"]} :
       s \in {"Active", "Inactive"}}

\* get_providers_for_practice: every provider of the practice
get_providers_for_practice(practice_id) ==
    {pr \in providers : pr.practice_id = practice_id}

\* get_lunches(status_filter=status) of the Lunch Tracking tab
LunchesWithStatus(status) ==
    {l \in BagToSet(lunch_tracking) : l.status = status}

\* UPDATE lunch_tracking SET ... WHERE id=?
LunchesAfterUpdate(lunch, updated) ==
    (lunch_tracking (-) SetToBag({lunch})) (+) SetToBag({updated})

\* datetime.now().isoformat()
NowIso == DateTimeT(now.day, now.tod)

\* the Date * field of the schedule forms (a week ahead by default)
ScheduleDateInput == DateText(now.day + 7)

\* the Date field of the edit form
EditDateInputs == {DateText(now.day + 14)}

\* the letters Confirm Completed adds, ids in the order of insertion
PostLunchLetters(lunch) ==
    LET provs == get_providers_for_practice(lunch.practice_id)
        rank(pr) == Cardinality({q \in provs : q.id <= pr.id})
    IN  {[id |-> BagCardinality(thank_you_letters) + rank(pr),
          provider_id |-> pr.id,
          practice_id |-> lunch.practice_id,
          lunch_id |-> lunch.id,
          reason |-> "Post-Lunch",
          status |-> "Pending",
          date_mailed |-> NoDate] : pr \in provs}

\* the letters the Add Thank You button adds for the chosen providers
ManualLetters(practice_id, provs, reason) ==
    LET rank(pr) == Cardinality({q \in provs : q.id <= pr.id})
    IN  {[id |-> BagCardinality(thank_you_letters) + rank(pr),
          provider_id |-> pr.id,
          practice_id |-> practice_id,
          lunch_id |-> Null,
          reason |-> reason,
          status |-> "Pending",
          date_mailed |-> NoDate] : pr \in provs}

\* update_thank_you(id, {"status": "Mailed", "date_mailed": now})
Mailed(letter) ==
    [letter EXCEPT !.status = "Mailed", !.date_mailed = NowIso]

\* a delete_provider that puts the provider's letters back to Pending
letters_after_delete_reset(provider_id) ==
    LET touched == {t \in BagToSet(thank_you_letters) :
                      t.provider_id = provider_id}
    IN  (thank_you_letters (-) SetToBag(touched))
          (+) SetToBag({[t EXCEPT !.provider_id = Null,
                                  !.status = "Pending"] : t \in touched})

\* UPDATE thank_you_letters SET provider_id=NULL WHERE provider_id=?
letters_after_delete(provider_id) ==
    LET touched == {t \in BagToSet(thank_you_letters) :
                      t.provider_id = provider_id}
    IN  (thank_you_letters (-) SetToBag(touched))
          (+) SetToBag({[t EXCEPT !.provider_id = Null] : t \in touched})

InitLunchTables ==
    /\ now = [day |-> 0, tod |-> 0]
    /\ practices = InitialPractices
    /\ contact_log = EmptyBag
    /\ cookie_visits = EmptyBag
    /\ thank_you_letters = EmptyBag
    /\ reminder_days = DefaultLunchFollowup
    /\ providers \in ProviderTables
    /\ huntsville_zips = {}
    /\ woodlands_zips = {}
    /\ call_attempts = EmptyBag
    /\ InitRecordsIdle
    /\ InitFaxIdle
    /\ InitParseIdle
    /\ InitImportIdle

InitLunch ==
    /\ InitLunchTables
    /\ lunch_tracking = EmptyBag
    /\ events = EmptyBag

\* Start New Lunch Workflow
StartLunchWorkflow ==
    \E p \in ActivePractices :
        /\ BagCardinality(lunch_tracking) < MaxWorkflows
        /\ lunch_tracking' = lunch_tracking (+) SetToBag(
               {[id |-> BagCardinality(lunch_tracking) + 1,
                 practice_id |-> p,
                 status |-> "Not Contacted",
                 scheduled_date |-> NoDate,
                 completed_date |-> NoDate]})
        /\ UNCHANGED <<now, practices, contact_log, cookie_visits,
                       thank_you_letters, reminder_days, providers,
                       huntsville_zips, woodlands_zips>>
        /\ UNCHANGED <<faxVars, parseVars, importVars, calendarVars, recordVars>>

\* a count of the practice's entries of every type
get_call_attempt_count_any_type(practice_id) ==
    BagCardinality([c \in {r \in BagToSet(contact_log) :
                              r.practice_id = practice_id}
                      |-> CopiesIn(c, contact_log)])

\* get_call_attempt_count: SELECT COUNT(*) FROM contact_log WHERE
\* practice_id=? AND contact_type='Phone Call'
get_call_attempt_count(practice_id) ==
    BagCardinality([c \in {r \in BagToSet(contact_log) :
                              /\ r.practice_id = practice_id
                              /\ r.contact_type = "Phone Call"}
                      |-> CopiesIn(c, contact_log)])

\* providers.py _lunch_dialog: Save
LunchDialogSave ==
    \E p \in DOMAIN practices :
        /\ BagCardinality(lunch_tracking) < MaxWorkflows
        /\ BagCardinality(events) < MaxEvents
        /\ lunch_tracking' = lunch_tracking (+) SetToBag(
               {[id |-> BagCardinality(lunch_tracking) + 1,
                 practice_id |-> p,
                 status |-> "Scheduled",
                 scheduled_date |-> ScheduleDateInput,
                 completed_date |-> NoDate]})
        /\ contact_log' = contact_log (+) SetToBag(
               {[practice_id |-> p, contact_type |-> "Phone Call",
                 contact_date |-> NowIso,
                 call_attempt_number |-> get_call_attempt_count(p) + 1]})
        /\ events' = events (+) SetToBag(
               {[practice_id |-> p, event_type |-> "Lunch",
                 scheduled_date |-> ScheduleDateInput,
                 status |-> "Scheduled"]})
        /\ UNCHANGED <<now, practices, cookie_visits, thank_you_letters,
                       reminder_days, providers, huntsville_zips,
                       woodlands_zips, call_attempts>>
        /\ UNCHANGED <<faxVars, parseVars, importVars, recordVars>>

\* _show_call_attempt_form: Save Call
SaveCallAttempt ==
    \E lunch \in LunchesWithStatus("Not Contacted")
                   \cup LunchesWithStatus("Attempting") :
        /\ BagCardinality(call_attempts) < MaxCallAttempts
        /\ call_attempts' = call_attempts (+) SetToBag(
               {[lunch_id |-> lunch.id, practice_id |-> lunch.practice_id,
                 call_date |-> DateText(now.day)]})
        /\ lunch_tracking' =
               IF lunch.status = "Not Contacted"
               THEN LunchesAfterUpdate(lunch,
                        [lunch EXCEPT !.status = "Attempting"])
               ELSE lunch_tracking
        /\ UNCHANGED <<now, practices, contact_log, cookie_visits,
                       thank_you_letters, reminder_days, providers,
                       huntsville_zips, woodlands_zips, events>>
        /\ UNCHANGED <<faxVars, parseVars, importVars, recordVars>>

\* _show_schedule_lunch_form: Schedule Lunch, with a time filled in
ScheduleFromWorkflow ==
    \E lunch \in LunchesWithStatus("Not Contacted")
                   \cup LunchesWithStatus("Attempting") :
        /\ BagCardinality(events) < MaxEvents
        /\ lunch_tracking' = LunchesAfterUpdate(lunch,
               [lunch EXCEPT !.status = "Scheduled",
                             !.scheduled_date = ScheduleDateInput])
        /\ events' = events (+) SetToBag(
               {[practice_id |-> lunch.practice_id, event_type |-> "Lunch",
                 scheduled_date |-> ScheduleDateInput,
                 status |-> "Scheduled"]})
        /\ UNCHANGED <<now, practices, contact_log, cookie_visits,
                       thank_you_letters, reminder_days, providers,
                       huntsville_zips, woodlands_zips, call_attempts>>
        /\ UNCHANGED <<faxVars, parseVars, importVars, recordVars>>

\* the Mark Complete button of a Not Contacted lunch
MarkComplete ==
    \E lunch \in LunchesWithStatus("Not Contacted") :
        /\ lunch_tracking' = LunchesAfterUpdate(lunch,
               [lunch EXCEPT !.status = "Completed",
                             !.completed_date = NowIso])
        /\ UNCHANGED <<now, practices, contact_log, cookie_visits,
                       thank_you_letters, reminder_days, providers,
                       huntsville_zips, woodlands_zips>>
        /\ UNCHANGED <<faxVars, parseVars, importVars, calendarVars, recordVars>>

\* the Give Up button of an Attempting lunch
GiveUp ==
    \E lunch \in LunchesWithStatus("Attempting") :
        /\ lunch_tracking' = LunchesAfterUpdate(lunch,
               [lunch EXCEPT !.status = "Not Contacted"])
        /\ UNCHANGED <<now, practices, contact_log, cookie_visits,
                       thank_you_letters, reminder_days, providers,
                       huntsville_zips, woodlands_zips>>
        /\ UNCHANGED <<faxVars, parseVars, importVars, calendarVars, recordVars>>

\* the Cancel Lunch button of a Scheduled lunch
CancelLunch ==
    \E lunch \in LunchesWithStatus("Scheduled") :
        /\ lunch_tracking' = LunchesAfterUpdate(lunch,
               [lunch EXCEPT !.status = "Not Contacted"])
        /\ UNCHANGED <<now, practices, contact_log, cookie_visits,
                       thank_you_letters, reminder_days, providers,
                       huntsville_zips, woodlands_zips>>
        /\ UNCHANGED <<faxVars, parseVars, importVars, calendarVars, recordVars>>

\* _show_edit_lunch_form: Save Changes
EditLunchDetails ==
    \E lunch \in LunchesWithStatus("Scheduled"), d \in EditDateInputs :
        /\ lunch_tracking' = LunchesAfterUpdate(lunch,
               [lunch EXCEPT !.scheduled_date = d])
        /\ UNCHANGED <<now, practices, contact_log, cookie_visits,
                       thank_you_letters, reminder_days, providers,
                       huntsville_zips, woodlands_zips>>
        /\ UNCHANGED <<faxVars, parseVars, importVars, calendarVars, recordVars>>

\* _show_complete_lunch_dialog: Confirm Completed
ConfirmCompleted ==
    \E lunch \in LunchesWithStatus("Scheduled") :
        /\ lunch_tracking' = LunchesAfterUpdate(lunch,
               [lunch EXCEPT !.status = "Completed",
                             !.completed_date = NowIso])
        /\ thank_you_letters' =
               thank_you_letters (+) SetToBag(PostLunchLetters(lunch))
        /\ contact_log' = contact_log (+) SetToBag(
               {[practice_id |-> lunch.practice_id,
                 contact_type |-> "Lunch",
                 contact_date |-> NowIso]})
        /\ UNCHANGED <<now, practices, cookie_visits, reminder_days,
                       providers, huntsville_zips, woodlands_zips>>
        /\ UNCHANGED <<faxVars, parseVars, importVars, calendarVars, recordVars>>

\* the Deactivate / Activate button of a provider
ToggleProvider ==
    \E pr \in providers :
        /\ providers' = (providers \ {pr}) \cup
               {[pr EXCEPT !.status = IF pr.status = "Active"
                                      THEN "Inactive" ELSE "Active"]}
        /\ UNCHANGED <<now, practices, contact_log, lunch_tracking,
                       cookie_visits, thank_you_letters, reminder_days,
                       huntsville_zips, woodlands_zips>>
        /\ UNCHANGED <<faxVars, parseVars, importVars, calendarVars, recordVars>>

NextLunch ==
    \/ StartLunchWorkflow
    \/ LunchDialogSave
    \/ SaveCallAttempt
    \/ ScheduleFromWorkflow
    \/ MarkComplete
    \/ GiveUp
    \/ CancelLunch
    \/ EditLunchDetails
    \/ ConfirmCompleted

SpecLunch == InitLunch /\ [][NextLunch]_vars

(***************************************************************************)
(* The thank-you tab, starting from one lunch scheduled with the lunch     *)
(* dialog.                                                                 *)
(***************************************************************************)
InitThankYou ==
    /\ InitLunchTables
    /\ lunch_tracking = SetToBag(
           {[id |-> 1, practice_id |-> 1, status |-> "Scheduled",
             scheduled_date |-> ScheduleDateInput,
             completed_date |-> NoDate]})
    /\ events = SetToBag(
           {[practice_id |-> 1, event_type |-> "Lunch",
             scheduled_date |-> ScheduleDateInput,
             status |-> "Scheduled"]})

\* the Mailed button of a pending letter
MailThankYou ==
    \E ty \in {t \in BagToSet(thank_you_letters) : t.status = "Pending"} :
        /\ thank_you_letters' = (thank_you_letters (-) SetToBag({ty}))
                                   (+) SetToBag({Mailed(ty)})
        /\ UNCHANGED <<now, practices, contact_log, lunch_tracking,
                       cookie_visits, reminder_days, providers,
                       huntsville_zips, woodlands_zips>>
        /\ UNCHANGED <<faxVars, parseVars, importVars, calendarVars, recordVars>>

\* Mark All as Mailed (shown when a letter is pending)
MarkAllMailed ==
    LET pending == {t \in BagToSet(thank_you_letters) :
                      t.status = "Pending"}
    IN  /\ pending # {}
        /\ thank_you_letters' = (thank_you_letters (-) SetToBag(pending))
                                   (+) SetToBag({Mailed(t) : t \in pending})
        /\ UNCHANGED <<now, practices, contact_log, lunch_tracking,
                       cookie_visits, reminder_days, providers,
                       huntsville_zips, woodlands_zips>>
        /\ UNCHANGED <<faxVars, parseVars, importVars, calendarVars, recordVars>>

\* Add Thank You, for one provider of the practice or for all of them
AddManualThankYou ==
    \E p \in ActivePractices :
        \E chosen \in {get_providers_for_practice(p)}
                        \cup {{pr} : pr \in get_providers_for_practice(p)} :
            /\ BagCardinality(thank_you_letters) + Cardinality(chosen)
                 <= MaxLetters
            /\ thank_you_letters' = thank_you_letters (+) SetToBag(
                   ManualLetters(p, chosen, "New Referral"))
            /\ UNCHANGED <<now, practices, contact_log, lunch_tracking,
                           cookie_visits, reminder_days, providers,
                           huntsville_zips, woodlands_zips>>
            /\ UNCHANGED <<faxVars, parseVars, importVars, calendarVars, recordVars>>

\* DELETE FROM provider_history WHERE provider_id=?
history_after_delete(provider_id) ==
    LET gone == {h \in BagToSet(provider_history) :
                   h.provider_id = provider_id}
    IN  provider_history (-)
          [h \in gone |-> CopiesIn(h, provider_history)]

\* Yes, Remove: delete_provider
DeleteProvider ==
    \E pr \in providers :
        /\ provider_history' = history_after_delete(pr.id)
        /\ thank_you_letters' = letters_after_delete(pr.id)
        /\ providers' = providers \ {pr}
        /\ UNCHANGED <<now, practices, contact_log, lunch_tracking,
                       cookie_visits, reminder_days, huntsville_zips,
                       woodlands_zips>>
        /\ UNCHANGED <<faxVars, parseVars, importVars, calendarVars,
                       flyer_campaigns, flyer_recipients, fax_form,
                       configVars>>

NextThankYou ==
    \/ ConfirmCompleted
    \/ MailThankYou
    \/ MarkAllMailed
    \/ AddManualThankYou
    \/ DeleteProvider
    \/ ToggleProvider

SpecThankYou == InitThankYou /\ [][NextThankYou]_vars

(***************************************************************************)
(* Claims about the lunch workflow and the thank-you letters.              *)
(***************************************************************************)
LunchTransitions ==
    {<<"Not Contacted", "Attempting">>,
     <<"Attempting", "Scheduled">>,
     <<"Scheduled", "Completed">>,
     <<"Attempting", "Not Contacted">>,
     <<"Scheduled", "Not Contacted">>}

\* the row of lunch_tracking with this id before the step, if any
LunchBefore(id) == {l \in BagToSet(lunch_tracking) : l.id = id}

\* C18: in every step, a lunch that changes status makes one of the five
\* transitions of the state machine (none of which leaves Completed), and a
\* lunch that is new starts in Not Contacted.
C18_LunchStatusMachine ==
    [][\A after \in BagToSet(lunch_tracking') :
         IF LunchBefore(after.id) = {}
         THEN after.status = "Not Contacted"
         ELSE \A before \in LunchBefore(after.id) :
                \/ after.status = before.status
                \/ <<before.status, after.status>> \in LunchTransitions]_vars

\* the lunches a step moves to Completed
NewlyCompleted ==
    {after \in BagToSet(lunch_tracking') :
       /\ after.status = "Completed"
       /\ \A before \in LunchBefore(after.id) : before.status # "Completed"}

\* C19: a step that moves a lunch to Completed adds exactly one Pending
\* letter for each Active provider of the lunch's practice, none for an
\* Inactive one, and exactly one contact_log row, for that practice.
C19_CompletionSideEffects ==
    [][\A lunch \in NewlyCompleted :
         LET added == {t \in BagToSet(thank_you_letters') :
                         ~BagIn(t, thank_you_letters)}
         IN  /\ \A pr \in get_providers_for_practice(lunch.practice_id) :
                  Cardinality({t \in added : /\ t.provider_id = pr.id
                                             /\ t.status = "Pending"})
                    = IF pr.status = "Active" THEN 1 ELSE 0
             /\ \E row \in BagToSet(contact_log') :
                  /\ row.practice_id = lunch.practice_id
                  /\ contact_log' = contact_log (+) SetToBag({row})]_vars

\* the row of thank_you_letters with this id before the step, if any
LetterBefore(id) == {t \in BagToSet(thank_you_letters) : t.id = id}

\* C20: in every step a letter that is new is Pending, a letter that was
\* there is still there, and its status is either what it was or goes from
\* Pending to Mailed with date_mailed set; so a Mailed letter stays Mailed,
\* also through the deletion of its provider.
C20_ThankYouOneWay ==
    [][/\ \A after \in BagToSet(thank_you_letters') :
            IF LetterBefore(after.id) = {}
            THEN after.status = "Pending"
            ELSE \A before \in LetterBefore(after.id) :
                   \/ after.status = before.status
                   \/ /\ before.status = "Pending"
                      /\ after.status = "Mailed"
                      /\ after.date_mailed # NoDate
       /\ \A before \in BagToSet(thank_you_letters) :
            \E after \in BagToSet(thank_you_letters') :
                after.id = before.id]_vars

\* a letter made by a completed lunch, mailed, whose provider was deleted
C20_Witness ==
    \E t \in BagToSet(thank_you_letters) :
        /\ t.lunch_id = 1
        /\ t.status = "Mailed"
        /\ t.provider_id = Null
        /\ \A pr \in providers : pr.id # 1

\* C30: a run of fix_all_vonage_emails that follows another run with no
\* write in between changes no practice row and returns fixed = 0 and an
\* empty errors list.
C30_RepairIdempotent ==
    [][(fix_result.returned /\ fix_result'.returned) =>
         /\ practices' = practices
         /\ fix_result'.fixed = 0
         /\ fix_result'.errors = <<>>]_vars

\* the result of a second run over two practices the first run repaired:
\* one whose email was replaced and one whose email was cleared
C30_Witness ==
    /\ fix_result = [returned |-> TRUE, fixed |-> 0, errors |-> <<>>]
    /\ Len(practices) = 2
    /\ practices[1].fax = <<"9", "3", "6", "-", "5", "5", "5", "-", "1", "2", "1", "2">>
    /\ practices[1].fax_vonage_email = convert_fax_to_vonage_email(practices[1].fax)
    /\ practices[2].fax = <<"5", "5", "5", "-", "1", "2", "1", "2">>
    /\ practices[2].fax_vonage_email = <<>>

(***************************************************************************)
(* The writers of fax and fax_vonage_email together: the import of a short *)
(* sheet, then the add form, the edit form and the repair.                 *)
(***************************************************************************)
NextFaxEmail ==
    \/ ImportBegin
    \/ ImportRow
    \/ ImportFinish
    \/ AddPractice
    \/ import_pc = "done" /\ EditFax
    \/ import_pc = "done" /\ FixAllVonageEmails

SpecFaxEmail == InitPractices /\ [][NextFaxEmail]_vars

\* C25: every stored practice's fax email is the conversion of its stored
\* fax (empty when the fax is empty or cannot be normalized); so after an
\* import no practice has a normalizable fax and an empty fax email, and
\* every stored fax email is empty or passes validate_vonage_email.
C25_FaxEmailDerived ==
    \A p \in DOMAIN practices :
        /\ practices[p].fax_vonage_email =
               convert_fax_to_vonage_email(practices[p].fax)
        /\ practices[p].fax = <<>> => practices[p].fax_vonage_email = <<>>
        /\ \/ practices[p].fax_vonage_email = <<>>
           \/ validate_vonage_email(practices[p].fax_vonage_email)

\* after an import and a repair: an imported practice with its fax email,
\* whose fax was then edited to one that cannot be normalized, and an added
\* practice with a fax
C25_Witness ==
    /\ import_pc = "done"
    /\ fix_result.returned
    /\ \E p \in DOMAIN practices :
         /\ practices[p].name = <<"A", "B", "C", " ", "C", "l", "i", "n", "i", "c">>
         /\ practices[p].fax = <<"5", "5", "5", "-", "1", "2", "1", "2">>
         /\ practices[p].fax_vonage_email = <<>>
    /\ \E p \in DOMAIN practices :
         /\ practices[p].name = <<"N", "e", "w">>
         /\ practices[p].fax = <<"(", "9", "3", "6", ")", " ", "5", "5", "5", "-", "3", "4", "3", "4">>
         /\ validate_vonage_email(practices[p].fax_vonage_email)

(***************************************************************************)
(* The Individual Providers tab: moving a provider to another practice and *)
(* removing a provider.                                                    *)
(***************************************************************************)
MaxMoves == 2

\* move_provider: the provider's practice changes and the move is recorded
MoveProvider ==
    \E pr \in providers, new_practice_id \in DOMAIN practices :
        /\ BagCardinality(provider_history) < MaxMoves
        /\ providers' = (providers \ {pr})
                          \cup {[pr EXCEPT !.practice_id = new_practice_id]}
        /\ provider_history' = provider_history (+) SetToBag(
               {[provider_id |-> pr.id, old_practice_id |-> pr.practice_id,
                 new_practice_id |-> new_practice_id]})
        /\ UNCHANGED <<now, practices, contact_log, lunch_tracking,
                       cookie_visits, thank_you_letters, reminder_days,
                       huntsville_zips, woodlands_zips>>
        /\ UNCHANGED <<faxVars, parseVars, importVars, calendarVars,
                       flyer_campaigns, flyer_recipients, fax_form,
                       configVars>>

NextProviderMoves ==
    \/ MoveProvider
    \/ DeleteProvider
    \/ ToggleProvider
    \/ AddManualThankYou

SpecProviderMoves == InitThankYou /\ [][NextProviderMoves]_vars

\* C21: removing a provider removes the provider row only: every move
\* record stored before a step is stored after it, whatever happens to the
\* provider it is about.
C21_MoveHistoryKept ==
    [][\A h \in BagToSet(provider_history) :
           CopiesIn(h, provider_history') >= CopiesIn(h, provider_history)]_vars

(***************************************************************************)
(* The re-import buttons of the settings page.  Both delete the tables in  *)
(* one transaction and then run import_excel.  Foreign keys are enforced   *)
(* (get_connection), so `DELETE FROM practices` is refused while a row of  *)
(* events refers to a practice: events is deleted after practices in the   *)
(* upload variant and not at all in the local one.  The ids of the rows    *)
(* are positions here; that sqlite does not hand out the id of a deleted   *)
(* row again is not modelled.                                              *)
(***************************************************************************)
MaxKeptPractices == 3

MaxReimportLunches == 1

\* a row of events refers to a practice
practices_referenced ==
    \E e \in BagToSet(events) : e.practice_id \in DOMAIN practices

\* Yes, Re-import, of the uploaded file or of the local one.  The upload
\* variant runs each DELETE in its own try/except and goes on after a
\* refused one; in the local variant a refused DELETE raises, the
\* transaction is never committed and nothing changes.
Reimport ==
    \E variant \in {"upload", "local"} :
        /\ import_pc = "done"
        /\ Len(practices) + Len(sheet) <= MaxKeptPractices
        /\ variant = "local" => ~practices_referenced
        /\ flyer_recipients' = EmptyBag
        /\ flyer_campaigns' = <<>>
        /\ cookie_visits' = EmptyBag
        /\ thank_you_letters' = EmptyBag
        /\ call_attempts' = EmptyBag
        /\ lunch_tracking' = EmptyBag
        /\ contact_log' = EmptyBag
        /\ provider_history' = EmptyBag
        /\ providers' = {}
        /\ practices' = IF practices_referenced THEN practices ELSE <<>>
        /\ events' = IF variant = "upload" THEN EmptyBag ELSE events
        /\ import_pc' = "rows"
        /\ import_row' = 0
        /\ current_practice_name' = <<>>
        /\ stats' = InitialStats
        /\ UNCHANGED <<sheet, fix_result, now, reminder_days,
                       huntsville_zips, woodlands_zips, fax_form,
                       configVars>>
        /\ UNCHANGED <<faxVars, parseVars>>

NextReimport ==
    \/ ImportBegin
    \/ ImportRow
    \/ ImportFinish
    \/ AddPractice
    \/ ArchivePractice
    \/ /\ import_pc = "done"
       /\ BagCardinality(lunch_tracking) < MaxReimportLunches
       /\ LunchDialogSave
    \/ Reimport

SpecReimport == InitPractices /\ [][NextReimport]_vars

\* a practice stored before the step is stored after it, under its id
PracticesKept ==
    \A p \in DOMAIN practices :
        /\ p \in DOMAIN practices'
        /\ practices'[p].name = practices[p].name

MaxImportedPractices == 4

MaxRunSheetRows == 2

\* the practices table when the run fails in a row: the row's practice is
\* stored once add_practice has returned
practices_at_failure_rolled_back(practice, reached) ==
    SubSeq(practices, 1, Len(practices) - stats.practices_imported)

practices_at_failure(practice, reached) ==
    IF reached >= 1 THEN Append(practices, practice) ELSE practices

\* an exception in a turn of the loop, after `reached` of the row's inserts
ImportRowFails ==
    /\ import_pc = "rows"
    /\ import_row < Len(sheet)
    /\ ~row_is_skipped(sheet[import_row + 1], current_practice_name)
    /\ LET row == sheet[import_row + 1]
           practice_id == Len(practices) + 1
           practice == imported_practice(row, current_practice_name)
           added == imported_providers(row, practice_id)
       IN  \E reached \in 0..(2 + Cardinality(added)) :
               /\ practices' = practices_at_failure(practice, reached)
               /\ contact_log' =
                      IF reached >= 2 /\ row.last_contact # NoDate
                      THEN contact_log (+) SetToBag(
                               {[practice_id |-> practice_id,
                                 contact_type |-> "Other",
                                 contact_date |-> row.last_contact]})
                      ELSE contact_log
               /\ providers' = providers \cup
                      {pr \in added :
                         pr.id <= Cardinality(providers) + reached - 2}
    /\ import_pc' = "failed"
    /\ UNCHANGED <<sheet, import_row, current_practice_name, stats,
                   fix_result>>
    /\ UNCHANGED <<now, lunch_tracking, cookie_visits, thank_you_letters,
                   reminder_days, huntsville_zips, woodlands_zips>>
    /\ UNCHANGED <<faxVars, parseVars, calendarVars, recordVars>>

\* Import Data pressed once more, on the same file
ImportAgain ==
    /\ import_pc \in {"done", "failed"}
    /\ Len(practices) + Len(sheet) <= MaxImportedPractices
    /\ import_pc' = "rows"
    /\ import_row' = 0
    /\ current_practice_name' = <<>>
    /\ stats' = InitialStats
    /\ UNCHANGED <<sheet, fix_result>>
    /\ UNCHANGED <<faxVars, dbVars, parseVars, calendarVars, recordVars>>

NextImportRuns ==
    \/ ImportBegin
    \/ ImportRow
    \/ ImportRowFails
    \/ ImportFinish
    \/ ImportAgain

SpecImportRuns == InitSheet(MaxRunSheetRows) /\ [][NextImportRuns]_vars

\* what the database held before the step is still there after it
RecordsKept ==
    /\ PracticesKept
    /\ providers \subseteq providers'
    /\ \A c \in BagToSet(contact_log) :
           CopiesIn(c, contact_log') >= CopiesIn(c, contact_log)

\* C27: import is not atomic.  No step of an import takes back a record: a
\* run that fails keeps every practice, provider and contact log entry
\* stored before the failure (those of the failing row included), and a row
\* processed by a later run is a new practice at the end of the table, the
\* earlier copy staying as it was.
C27_ImportNotAtomic ==
    [][/\ RecordsKept
       /\ import_pc' = "failed" =>
            /\ Len(practices') >= Len(practices)
            /\ Len(practices) >= stats.practices_imported
            /\ SubSeq(practices', 1, Len(practices)) = practices
       /\ (import_pc' = "rows" /\ import_row' = import_row + 1
             /\ ~row_is_skipped(sheet[import_row + 1],
                                current_practice_name)) =>
            /\ practices' =
                 Append(practices,
                        imported_practice(sheet[import_row + 1],
                                          current_practice_name))]_vars

\* a second run has finished after a first one that failed in its second
\* row before the row's practice was stored: the first row has two
\* practices, the second row one
C27_Witness ==
    /\ import_pc = "done"
    /\ stats.practices_imported = 2
    /\ Len(practices) = 3
    /\ practices[2].name = practices[1].name
    /\ practices[3].name # practices[1].name

(***************************************************************************)
(* Outbound sends: the Send Flyers button of the campaign page and the     *)
(* Send Fax dialog of a practice.  The transport (outlook_graph.send_email)*)
(* answers with success, or with failure and an error text.                *)
(***************************************************************************)
MaxCampaigns == 2

SendResults ==
    {[success |-> TRUE, error |-> ""],
     [success |-> FALSE, error |-> "Service unavailable"]}

\* the practices offered for selection: Active, with a fax email
fax_practices ==
    {p \in DOMAIN practices :
       /\ practices[p].status = "Active"
       /\ practices[p].fax_vonage_email # <<>>}

\* one row of flyer_recipients per attempted practice
recipient_rows(campaign_id, result) ==
    {[campaign_id |-> campaign_id,
      practice_id |-> p,
      vonage_email |-> practices[p].fax_vonage_email,
      status |-> IF result[p].success THEN "Sent" ELSE "Failed",
      error_message |-> IF result[p].success THEN ""
                        ELSE result[p].error] : p \in DOMAIN result}

\* Send Flyers: a campaign row, then for every valid recipient a send, a
\* recipient row and, after a success, a contact log row
SendFlyers ==
    \E selected_practices \in SUBSET fax_practices :
        LET valid_selected ==
                {p \in selected_practices :
                   validate_vonage_email(practices[p].fax_vonage_email)}
        IN  /\ valid_selected # {}
            /\ Len(flyer_campaigns) < MaxCampaigns
            /\ \E result \in [valid_selected -> SendResults] :
                   /\ flyer_campaigns' = Append(flyer_campaigns,
                          [sent_date |-> NowIso, sent_by |-> "Robbie"])
                   /\ flyer_recipients' = flyer_recipients (+) SetToBag(
                          recipient_rows(Len(flyer_campaigns) + 1, result))
                   /\ contact_log' = contact_log (+) SetToBag(
                          {[practice_id |-> p,
                            contact_type |-> "Fax Sent",
                            contact_date |-> NowIso] :
                             p \in {q \in valid_selected :
                                      result[q].success}})
            /\ UNCHANGED <<now, practices, lunch_tracking, cookie_visits,
                           thank_you_letters, reminder_days, providers,
                           huntsville_zips, woodlands_zips>>
            /\ UNCHANGED <<faxVars, parseVars, importVars, calendarVars,
                           provider_history, fax_form, configVars>>

\* the Send Fax button of a practice: _cb_open_fax
OpenFaxDialog ==
    \E p \in DOMAIN practices :
        /\ fax_form' = [active_fax_form |-> p,
                        show_contact_success |-> FALSE]
        /\ UNCHANGED <<faxVars, dbVars, parseVars, importVars, calendarVars,
                       provider_history, flyer_campaigns, flyer_recipients,
                       configVars>>

\* _fax_dialog, Send Fax: offered when the practice has a fax email; a
\* success closes the dialog with a message, a failure shows the error
FaxDialogSend ==
    \E result \in SendResults :
        /\ fax_form.active_fax_form \in DOMAIN practices
        /\ practices[fax_form.active_fax_form].fax_vonage_email # <<>>
        /\ fax_form' = IF result.success
                       THEN [active_fax_form |-> Null,
                             show_contact_success |-> TRUE]
                       ELSE fax_form
        /\ UNCHANGED <<faxVars, dbVars, parseVars, importVars, calendarVars,
                       provider_history, flyer_campaigns, flyer_recipients,
                       configVars>>

NextSends ==
    \/ SendFlyers
    \/ OpenFaxDialog
    \/ FaxDialogSend

SpecSends == InitRepair /\ [][NextSends]_vars

\* the rows a step adds to a table
AddedRows(table, table_after) ==
    {r \in BagToSet(table_after) :
       CopiesIn(r, table_after) > CopiesIn(r, table)}

\* a campaign step: one recipient row per attempted practice, Failed rows
\* carry the error text, and a Fax Sent entry for the Sent rows only
FlyerSendRecorded ==
    Len(flyer_campaigns') = Len(flyer_campaigns) + 1 =>
        LET rows == AddedRows(flyer_recipients, flyer_recipients')
            logged == AddedRows(contact_log, contact_log')
        IN  /\ rows # {}
            /\ \A r \in rows :
                 /\ r.campaign_id = Len(flyer_campaigns')
                 /\ CopiesIn(r, flyer_recipients') = 1
                 /\ \A r2 \in rows : r2.practice_id = r.practice_id => r2 = r
                 /\ r.status \in {"Sent", "Failed"}
                 /\ r.status = "Sent" => r.error_message = ""
                 /\ r.status = "Failed" => r.error_message # ""
                 /\ r.status = "Sent" <=>
                      \E c \in logged :
                          /\ c.practice_id = r.practice_id
                          /\ c.contact_type = "Fax Sent"
            /\ \A c \in logged :
                 \E r \in rows : /\ r.practice_id = c.practice_id
                                 /\ r.status = "Sent"

\* a successful send of the Send Fax dialog adds a Fax Sent entry for the
\* practice of the dialog
FaxDialogRecorded ==
    (fax_form.active_fax_form # Null /\ fax_form'.show_contact_success) =>
        \E c \in AddedRows(contact_log, contact_log') :
            /\ c.practice_id = fax_form.active_fax_form
            /\ c.contact_type = "Fax Sent"

\* C24: every outbound send has its outcome recorded: a campaign send writes
\* one recipient row per attempted practice, Sent exactly when the transport
\* succeeded and Failed with the error text otherwise, with a Fax Sent
\* contact log entry exactly for the successes; the Send Fax dialog records
\* its send in the contact log likewise.
C24_SendsRecorded == [][FlyerSendRecorded /\ FaxDialogRecorded]_vars

(***************************************************************************)
(* load_config and the thresholds get_overdue_items reads from it.  A dict *)
(* is a function from its keys; of the options those with a default that   *)
(* the pages read are kept: reminder_days and vonage_domain.               *)
(***************************************************************************)
ReminderKeys == {"lunch_followup", "cookie_visit", "flyer_send"}

\* _DEFAULT_CONFIG
DefaultReminderDays ==
    [lunch_followup |-> 90, cookie_visit |-> 60, flyer_send |-> 30]

DefaultConfig ==
    [reminder_days |-> DefaultReminderDays,
     vonage_domain |-> "fax.vonagebusiness.com"]

\* a reminder_days object of config.json, with any of the thresholds,
\* each 45 days
FileReminderDays ==
    UNION {[keys -> {45}] : keys \in SUBSET ReminderKeys}

\* the objects config.json may hold
FileConfigs ==
    {a @@ b : a \in {<<>>} \cup {"reminder_days" :> d :
                                   d \in FileReminderDays},
              b \in {<<>>, "vonage_domain" :> "fax.example.com"}}

ConfigFiles ==
    {[readable |-> FALSE, json |-> <<>>]}
      \cup {[readable |-> TRUE, json |-> f] : f \in FileConfigs}

\* dict.update: the keys of the other dict replace those of this one
update(this, other) == other @@ this

\* load_config: the defaults, then config.update(file_config) when the
\* file can be read and parsed
load_config(file) ==
    IF file.readable THEN update(DefaultConfig, file.json)
    ELSE DefaultConfig

InitConfig ==
    /\ InitCalendarIdle
    /\ provider_history = EmptyBag
    /\ flyer_campaigns = <<>>
    /\ flyer_recipients = EmptyBag
    /\ fax_form = [active_fax_form |-> Null, show_contact_success |-> FALSE]
    /\ config_file \in ConfigFiles
    /\ config = [loaded |-> FALSE, value |-> <<>>]
    /\ now = [day |-> 0, tod |-> 0]
    /\ practices = InitialPractices
    /\ contact_log = EmptyBag
    /\ lunch_tracking = EmptyBag
    /\ cookie_visits = EmptyBag
    /\ thank_you_letters = EmptyBag
    /\ reminder_days = DefaultLunchFollowup
    /\ providers = {}
    /\ huntsville_zips = {}
    /\ woodlands_zips = {}
    /\ InitFaxIdle
    /\ InitParseIdle
    /\ InitImportIdle

\* config = load_config(), first thing in get_overdue_items
LoadConfig ==
    /\ config' = [loaded |-> TRUE, value |-> load_config(config_file)]
    /\ UNCHANGED <<faxVars, dbVars, parseVars, importVars, calendarVars,
                   provider_history, flyer_campaigns, flyer_recipients,
                   fax_form, config_file>>

\* `days and days > config["reminder_days"]["lunch_followup"]` is reached
\* for an Active practice whose last contact has a day count other than 0,
\* and raises KeyError when the threshold is not in the dict
get_overdue_items_raises ==
    \E pid \in ActivePractices :
        LET contacts == get_contact_log(pid, 1)
        IN  /\ contacts # <<>>
            /\ Truthy(days_since(contacts[1].contact_date))
            /\ "lunch_followup" \notin DOMAIN config.value["reminder_days"]

NextConfig ==
    \/ LoadConfig
    \/ OverdueLogContact
    \/ ToggleArchive

SpecConfig == InitConfig /\ [][NextConfig]_vars

\* C26: for every option the file does not supply, a single threshold of a
\* partial reminder_days included, load_config yields the default; so
\* get_overdue_items finds its threshold and does not raise.
C26_DefaultsForAbsentOptions ==
    config.loaded =>
        /\ DOMAIN config.value = DOMAIN DefaultConfig
        /\ \A k \in DOMAIN DefaultConfig \ {"reminder_days"} :
               (~config_file.readable \/ k \notin DOMAIN config_file.json)
                 => config.value[k] = DefaultConfig[k]
        /\ \A k \in ReminderKeys :
               (\/ ~config_file.readable
                \/ "reminder_days" \notin DOMAIN config_file.json
                \/ k \notin DOMAIN config_file.json["reminder_days"])
                 => /\ k \in DOMAIN config.value["reminder_days"]
                    /\ config.value["reminder_days"][k]
                         = DefaultReminderDays[k]
        /\ ~get_overdue_items_raises

(***************************************************************************)
(* The writers of the contact log after an import: the Log Contact dialog, *)
(* the lunch dialog, the completion of a lunch, the cookie visit form and  *)
(* the flyer campaign.                                                     *)
(***************************************************************************)
MaxLoggedContacts == 3

MaxCookieSaves == 1

\* the Contact Type radio: the call, and two of the other types
ContactTypeInputs == {"Phone Call", "Email Sent", "In-Person Visit"}

\* st.date_input("Date", value=datetime.now()): today, or an earlier day
ContactDayInputs == {now.day, now.day - 45}

\* log_data of the Log Contact dialog
log_data(practice_id, contact_type, contact_datetime) ==
    IF contact_type = "Phone Call"
    THEN [practice_id |-> practice_id,
          contact_type |-> contact_type,
          contact_date |-> contact_datetime,
          call_attempt_number |-> get_call_attempt_count(practice_id) + 1]
    ELSE [practice_id |-> practice_id,
          contact_type |-> contact_type,
          contact_date |-> contact_datetime]

\* _contact_dialog, Save Contact: the date and the time of the form are
\* combined and stored as datetime.isoformat()
ContactDialogSave ==
    \E p \in DOMAIN practices, contact_type \in ContactTypeInputs,
       contact_day \in ContactDayInputs, contact_time \in {0, 1} :
        /\ BagCardinality(contact_log) < MaxLoggedContacts
        /\ contact_log' = contact_log (+) SetToBag(
               {log_data(p, contact_type,
                         DateTimeT(contact_day, contact_time))})
        /\ UNCHANGED <<now, practices, lunch_tracking, cookie_visits,
                       thank_you_letters, reminder_days, providers,
                       huntsville_zips, woodlands_zips>>
        /\ UNCHANGED <<faxVars, parseVars, importVars, calendarVars,
                       recordVars>>

\* Log Cookie Visit, with no follow-up scheduled: the visit, its calendar
\* event and the contact log entry carry visit_date.isoformat()
CookieVisitSave ==
    \E p \in ActivePractices, visit_day \in {now.day, now.day - 20} :
        /\ BagCardinality(cookie_visits) < MaxCookieSaves
        /\ cookie_visits' = cookie_visits (+) SetToBag(
               {[practice_id |-> p, visit_date |-> DateText(visit_day)]})
        /\ events' = events (+) SetToBag(
               {[practice_id |-> p, event_type |-> "Cookie Visit",
                 scheduled_date |-> DateText(visit_day),
                 status |-> "Completed"]})
        /\ contact_log' = contact_log (+) SetToBag(
               {[practice_id |-> p, contact_type |-> "Cookie Visit",
                 contact_date |-> DateText(visit_day)]})
        /\ UNCHANGED <<now, practices, lunch_tracking, thank_you_letters,
                       reminder_days, providers, huntsville_zips,
                       woodlands_zips, call_attempts>>
        /\ UNCHANGED <<faxVars, parseVars, importVars, recordVars>>

NextContacts ==
    \/ ImportBegin
    \/ ImportRow
    \/ ImportFinish
    \/ import_pc = "done" /\ ContactDialogSave
    \/ /\ import_pc = "done"
       /\ BagCardinality(lunch_tracking) < MaxReimportLunches
       /\ LunchDialogSave
    \/ import_pc = "done" /\ ConfirmCompleted
    \/ import_pc = "done" /\ CookieVisitSave
    \/ /\ import_pc = "done"
       /\ flyer_campaigns = <<>>
       /\ SendFlyers

SpecContacts == InitPractices /\ [][NextContacts]_vars

PhoneCalls(practice_id) ==
    {c \in BagToSet(contact_log) :
       c.practice_id = practice_id /\ c.contact_type = "Phone Call"}

\* C22: a Phone Call entry is created with the number of Phone Call entries
\* already stored for its practice plus one, and stored entries are never
\* changed by these writers: the Phone Call entries of a practice carry the
\* numbers 1, 2, 3, ... once each.
C22_CallAttemptsNumbered ==
    /\ [](\A p \in DOMAIN practices :
            /\ \A c \in PhoneCalls(p) :
                 /\ "call_attempt_number" \in DOMAIN c
                 /\ CopiesIn(c, contact_log) = 1
            /\ \A k \in 1..get_call_attempt_count(p) :
                 Cardinality({c \in PhoneCalls(p) :
                                c.call_attempt_number = k}) = 1)
    /\ [][/\ \A c \in BagToSet(contact_log) :
               CopiesIn(c, contact_log') >= CopiesIn(c, contact_log)
          /\ \A c \in AddedRows(contact_log, contact_log') :
               c.contact_type = "Phone Call" =>
                 c.call_attempt_number
                   = get_call_attempt_count(c.practice_id) + 1]_vars

\* three calls to the imported practice, the second one made when a lunch
\* was scheduled with the lunch dialog
C22_Witness ==
    /\ import_pc = "done"
    /\ get_call_attempt_count(1) = 3
    /\ {c.call_attempt_number : c \in PhoneCalls(1)} = {1, 2, 3}
    /\ BagCardinality(lunch_tracking) = 1
    /\ \E c \in PhoneCalls(1) :
           c.call_attempt_number = 2 /\ c.contact_date = NowIso
    /\ \E c \in PhoneCalls(1) :
           c.call_attempt_number = 3 /\ c.contact_date = DateTimeT(-45, 1)

\* C28: every contact timestamp written to the contact log, by the import,
\* the Log Contact dialog, the lunch dialog, the completion of a lunch, the
\* cookie visit form or a flyer send, is one for which days_since returns a
\* day count, not None.
C28_ContactDatesParse ==
    \A c \in BagToSet(contact_log) : ~days_since(c.contact_date).none

\* the recency part of relationship_score
recency_contribution(practice_id) ==
    recent_contact_bonus(get_contact_log(practice_id, 100))

\* the step is a Save Contact of the Log Contact dialog for practice p with
\* today's date
LoggedToday(p) ==
    /\ lunch_tracking' = lunch_tracking
    /\ \E c \in AddedRows(contact_log, contact_log') :
           /\ contact_log' = contact_log (+) SetToBag({c})
           /\ c.practice_id = p
           /\ c.contact_type \in ContactTypeInputs
           /\ c.contact_date.day = now.day

\* C29: logging a contact dated today with the Log Contact dialog never
\* lowers relationship_score, and right afterwards the practice has the
\* recency contribution 20 and no Follow-up Overdue item.
C29_LoggingTodayHelps ==
    [][\A p \in DOMAIN practices :
         LoggedToday(p) =>
           /\ relationship_score(p)' >= relationship_score(p)
           /\ recency_contribution(p)' = 20
           /\ \A i \in 1..Len(contact_items(p)') :
                  contact_items(p)'[i].type # "Follow-up Overdue"]_vars

============================================================================
